---------------------------- MODULE Spec2Model ----------------------------
(***************************************************************************)
(* A model of the Balatro RL bridge (src/ai): the state mapper and the     *)
(* action mapper (utils/mappers.py), the inbound and outbound validators   *)
(* (utils/validation.py), the dual-pipe channel (utils/communication.py)   *)
(* and the gym environment that drives them (environment/balatro_env.py).  *)
(*                                                                         *)
(* Conventions.  A JSON object is a record whose field "keys" is the set   *)
(* of keys the object carries; d.get(k, default) is Get(d, k, default).    *)
(* Python floats that the code only ever builds from integers are          *)
(* integers here; rewards, which have one decimal digit, are counted in    *)
(* tenths.  An exception is the name of its class; "none" is no exception. *)
(***************************************************************************)
EXTENDS Integers, Sequences, FiniteSets, TLC

VARIABLES
    \* ---- state mapper under test (BalatroStateMapper.process_game_state)
    raw_state,        \* the argument of the call
    map_result,       \* what the call did: [raised, value, validated, logged]
    mpc,              \* "idle", or "call" before the call and "done" after it
    \* ---- action mapper under test (BalatroActionMapper.process_action)
    rl_action,        \* the argument of the call: the flat action vector
    act_result,       \* what the call did: [raised, value]
    apc,              \* "idle", or "call" before the call and "done" after it
    \* ---- the channel (BalatroPipeIO) and its peer, the game
    request_handle,   \* "open" or "None"
    response_handle,  \* "open" or "None"
    pipe_files,       \* the pipe files that exist, among "request" and "response"
    request_pipe,     \* the lines the game has written and this side has not read
    response_buffer,  \* what was written to the response handle and not yet flushed
    response_pipe,    \* what was flushed into the response pipe and the game has not read
    game_writer,      \* the game holds the request pipe open for writing
    game_reader,      \* the game holds the response pipe open for reading
    game_opening,     \* the ends the game has still to open, in the order it opens them
    ppc,              \* "idle", "waiting" inside wait_for_request's readline, or
                      \* "open_request" / "open_response" inside the open of that pipe
    pipe_ret,         \* what the last call of the channel did
    \* ---- the environment (BalatroEnv) with its reward calculator and replay file
    epc,              \* where the caller of the environment is (see EnvIdle)
    current_state,    \* self.current_state
    prev_state,       \* self.prev_state
    game_over,        \* self.game_over
    restart_pending,  \* self.restart_pending
    actions_taken,    \* self.actions_taken
    action_masks,     \* self._action_masks, <<>> while the attribute is not set
    reward_calculator,\* the fields of self.reward_calculator
    replay_file,      \* replays.json: [kind, replays]
    env_ret,          \* what the last call of reset or step did
    io_log,           \* the last events on the channel pair: "R" a request line
                      \* consumed, "W" a response line flushed into the pipe
    calls,            \* the calls of reset and step so far
    \* ---- the reward calculator under test (BalatroRewardCalculator)
    fresh_calculator, \* a calculator constructed when the one under test was last
                      \* reset, and fed the same states since
    reward_ret,       \* what the last call of the calculator did (see NoRewardRet)
    \* ---- the replay recorder under test (ReplaySystem)
    replay_ret,       \* what the last call of try_save_replay did (see NoReplayRet)
    \* ---- several BalatroPipeIO objects on one file system
    instances,        \* [files, made, envs] (see NoInstances)
    \* ---- the script that constructed the environment
    entry_point       \* [script, pc, env_bound, raised] (see NoEntryPoint)

mapVars == <<raw_state, map_result, mpc>>
actVars == <<rl_action, act_result, apc>>
chanVars == <<game_opening, request_handle, response_handle, pipe_files, request_pipe,
              response_buffer, response_pipe, game_writer, game_reader>>
pipeVars == <<chanVars, ppc, pipe_ret>>
envVars == <<epc, current_state, prev_state, game_over, restart_pending, actions_taken,
             action_masks, reward_calculator, replay_file, env_ret, io_log, calls>>
rewVars == <<fresh_calculator, reward_ret, replay_ret, instances, entry_point>>
vars == <<mapVars, actVars, rewVars, pipeVars, envVars>>

(***************************************************************************)
(* Program constants.                                                      *)
(***************************************************************************)
OBSERVATION_SIZE == 216
MAX_ACTIONS == 3
MAX_CARDS == 8
max_cards == 8
features_per_card == 21
NON_CARDS_FEATURES == 2
STATE_CLASSES == 20
SUIT_CLASSES == 5
VALUE_CLASSES == 14

(***************************************************************************)
(* Bounds of the model.                                                    *)
(***************************************************************************)
MaxHandLen == 9          \* hands of 0..MaxHandLen cards (one more than max_cards)
MaxDeckShift == 1        \* the hands start at offsets 0..MaxDeckShift of the deck
MaxActionIndex == 3      \* action-selection entries range over -1..MaxActionIndex
MaxPipe == 1             \* lines a pipe holds before its writer blocks
MaxResidue == 1          \* writes that may fail and stay in the response handle's buffer
MaxCalls == 4            \* calls of reset and step
MaxRewardCalls == 4      \* calls of the reward calculator under test
MaxExitCalls == 2        \* calls of reset and step a script makes before it ends
MaxEnvs == 2             \* BalatroEnv instances side by side
MaxAvailable == 3        \* entries of an available_actions list given to the action mask
MaxNativeId == 6         \* largest action id in such a list (the ids start at 0)
MaxCapacity == 3         \* largest max_replays of a ReplaySystem built for a leaderboard
MaxSubmissions == 6      \* calls of try_save_replay on one leaderboard
MaxTieScore == 3         \* scores submitted to a leaderboard are 1..MaxTieScore
MaxSaves == 11           \* calls of try_save_replay, one more than MAX_REPLAYS
MaxScore == 11           \* the scores offered are 1..MaxScore

(***************************************************************************)
(* Generic helpers.                                                        *)
(***************************************************************************)
Zeros(n) == [i \in 1..n |-> 0]

\* d.get(k, default) on a JSON object
Get(d, k, default) == IF k \in d.keys THEN d[k] ELSE default

RECURSIVE Flatten(_)
Flatten(ss) == IF ss = <<>> THEN <<>> ELSE Head(ss) \o Flatten(Tail(ss))

\* list.index(x): the 0-based position of the first x, -1 standing for ValueError
IndexOf(list, x) ==
    IF \E i \in 1..Len(list) : list[i] = x
    THEN (CHOOSE i \in 1..Len(list) : list[i] = x /\ \A j \in 1..(i-1) : list[j] # x) - 1
    ELSE -1

(***************************************************************************)
(* mappers.py: make_onehot, make_mask                                      *)
(***************************************************************************)
make_onehot(value, num_classes) ==
    [i \in 1..num_classes |->
        IF 0 <= value /\ value < num_classes /\ i = value + 1 THEN 1 ELSE 0]

make_mask(available_items, total_slots) ==
    [i \in 1..total_slots |->
        IF \E j \in 1..Len(available_items) :
              /\ 0 <= available_items[j]
              /\ available_items[j] < total_slots
              /\ available_items[j] = i - 1
        THEN 1 ELSE 0]

(***************************************************************************)
(* The request document (the wire format the game writes) and its parts.   *)
(* "mistyped" is the set of keys whose value has the wrong JSON type.      *)
(***************************************************************************)
NoValue == "<None>"      \* what dict.get(k) gives for a missing key

Base(value, nominal) ==
    [keys |-> {"value", "nominal"}, value |-> value, nominal |-> nominal]

EmptyBase == [keys |-> {}, value |-> NoValue, nominal |-> 0]

Card(suit, value, nominal, highlighted) ==
    [keys |-> {"suit", "base", "highlighted", "debuff"},
     suit |-> suit, base |-> Base(value, nominal), highlighted |-> highlighted]

\* hand: "cards_type" is "list" for a JSON array and "dict" for a JSON object
\* holding the same cards as its values
HandDoc(cards) ==
    [keys |-> {"size", "cards", "highlighted_count"},
     size |-> Len(cards),
     highlighted_count |-> Cardinality({i \in 1..Len(cards) : cards[i].highlighted}),
     cards_type |-> "list", cards |-> cards]

EmptyHand ==
    [keys |-> {}, size |-> 0, highlighted_count |-> 0, cards_type |-> "list", cards |-> <<>>]

RoundDoc(hands_left, discards_left) ==
    [keys |-> {"hands_left", "discards_left"},
     hands_left |-> hands_left, discards_left |-> discards_left]

EmptyRound == [keys |-> {}, hands_left |-> 0, discards_left |-> 0]

BlindDoc == [keys |-> {"dollars", "defeated", "type", "chips", "blind_ante"}]

AnteDoc == [keys |-> {"current_ante", "win_ante"}]

CurrentHandDoc(chips, mult, score, handname) ==
    [keys |-> {"chips", "mult", "score", "handname"},
     chips |-> chips, mult |-> mult, score |-> score, handname |-> handname]

EmptyCurrentHand == [keys |-> {}, chips |-> 0, mult |-> 0, score |-> 0, handname |-> "None"]

\* the inner game state
GameStateDoc(hand, chips, over, win, current_hand) ==
    [keys |-> {"hand", "round", "blind", "ante", "blind_chips", "chips", "state",
               "game_over", "game_win", "current_hand", "seed"},
     mistyped |-> {},
     hand |-> hand, round |-> RoundDoc(4, 3), blind |-> BlindDoc, ante |-> AnteDoc,
     blind_chips |-> 300, chips |-> chips, state |-> 1,
     game_over |-> over, game_win |-> win, retry_count |-> 0,
     current_hand |-> current_hand, seed |-> "SEED"]

EmptyGameState ==
    [keys |-> {}, mistyped |-> {},
     hand |-> EmptyHand, round |-> EmptyRound, blind |-> [keys |-> {}], ante |-> [keys |-> {}],
     blind_chips |-> 0, chips |-> 0, state |-> 0,
     game_over |-> 0, game_win |-> 0, retry_count |-> 0,
     current_hand |-> EmptyCurrentHand, seed |-> ""]

\* the request document
RequestDoc(game_state, available_actions, retry_count) ==
    [kind |-> "dict",
     keys |-> {"game_state", "available_actions", "retry_count"},
     mistyped |-> {},
     game_state |-> game_state,
     available_actions |-> available_actions,
     retry_count |-> retry_count]

\* Python's None and the empty object {}
None ==
    [kind |-> "None", keys |-> {}, mistyped |-> {}, game_state |-> EmptyGameState,
     available_actions |-> <<>>, retry_count |-> 0]

EmptyDict ==
    [kind |-> "dict", keys |-> {}, mistyped |-> {}, game_state |-> EmptyGameState,
     available_actions |-> <<>>, retry_count |-> 0]

\* Python's truth value of a request: None and {} are falsy
Truthy(doc) == doc.kind = "dict" /\ doc.keys # {}

(***************************************************************************)
(* validation.py: GameStateValidator.  Each operator gives the exception   *)
(* the method raises, "none" when it returns True.  The checks are made    *)
(* in the order of the code, so the first failing check decides.           *)
(***************************************************************************)
\* the first of the exceptions that is not "none"
FirstRaised(excs) ==
    IF \E i \in 1..Len(excs) : excs[i] # "none"
    THEN excs[CHOOSE i \in 1..Len(excs) :
                 excs[i] # "none" /\ \A j \in 1..(i-1) : excs[j] = "none"]
    ELSE "none"

\* for field in required_fields: assert field in d
AssertFields(d, required_fields) ==
    IF required_fields \subseteq d.keys THEN "none" ELSE "AssertionError"

validate_card(card) ==
    IF AssertFields(card, {"suit", "base", "highlighted", "debuff"}) # "none"
    THEN "AssertionError"
    ELSE IF "value" \notin card.base.keys \/ "nominal" \notin card.base.keys
    THEN "ValueError"
    ELSE "none"

validate_hand(hand) ==
    IF AssertFields(hand, {"size", "cards", "highlighted_count"}) # "none"
    THEN "AssertionError"
    ELSE IF hand.cards_type # "list"
    THEN "ValueError"
    ELSE FirstRaised([i \in 1..Len(hand.cards) |-> validate_card(hand.cards[i])])

validate_round(round) == AssertFields(round, {"hands_left", "discards_left"})

validate_blind(blind) ==
    AssertFields(blind, {"dollars", "defeated", "type", "chips", "blind_ante"})

validate_ante(ante) == AssertFields(ante, {"current_ante", "win_ante"})

\* game_state[k] raises KeyError when k is missing
Subscript(d, k, then) == IF k \in d.keys THEN then ELSE "KeyError"

validate_inner_game_state(game_state) ==
    FirstRaised(<<
        Subscript(game_state, "hand", validate_hand(game_state.hand)),
        Subscript(game_state, "round", validate_round(game_state.round)),
        Subscript(game_state, "blind", validate_blind(game_state.blind)),
        Subscript(game_state, "ante", validate_ante(game_state.ante)),
        Subscript(game_state, "game_over",
                  IF game_state.game_over \in {0, 1} THEN "none" ELSE "AssertionError"),
        Subscript(game_state, "state",
                  IF "state" \notin game_state.mistyped THEN "none" ELSE "AssertionError")
    >>)

validate_game_state(doc) ==
    IF AssertFields(doc, {"game_state", "available_actions", "retry_count"}) # "none"
    THEN "AssertionError"
    ELSE IF doc.mistyped \cap {"game_state", "available_actions", "retry_count"} # {}
    THEN "AssertionError"
    ELSE validate_inner_game_state(doc.game_state)

(***************************************************************************)
(* mappers.py: BalatroStateMapper.  An extraction gives                    *)
(* [raised, value]: the exception it raises ("none" if it returns) and     *)
(* the feature list it returns.                                            *)
(***************************************************************************)
\* mutant: a suit outside the table is encoded as the first suit
suits_mapping_UnknownIsHearts(suit) ==
    CASE suit = "Hearts" -> 0 [] suit = "Diamonds" -> 1
      [] suit = "Spades" -> 2 [] suit = "Clubs" -> 3
      [] OTHER -> 0

suits_mapping(suit) ==
    CASE suit = "Hearts" -> 0 [] suit = "Diamonds" -> 1
      [] suit = "Spades" -> 2 [] suit = "Clubs" -> 3
      [] OTHER -> 4

values_list ==
    <<"2", "3", "4", "5", "6", "7", "8", "9", "10", "Jack", "Queen", "King", "Ace">>

values_mapping(value) ==
    IF IndexOf(values_list, value) >= 0 THEN IndexOf(values_list, value) ELSE 13

hand_types ==
    <<"None", "High Card", "Pair", "Two Pair", "Three of a Kind", "Straight", "Flush",
      "Full House", "Four of a Kind", "Straight Flush", "Five of a Kind", "Flush House",
      "Flush Five">>

BoolToFloat(b) == IF b THEN 1 ELSE 0

\* the body of the loop over the cards of the hand
card_features(card) ==
    LET base == Get(card, "base", EmptyBase) IN
        <<BoolToFloat(Get(card, "highlighted", FALSE))>>
        \o make_onehot(suits_mapping(Get(card, "suit", "Unknown")), SUIT_CLASSES)
        \o make_onehot(values_mapping(Get(base, "value", NoValue)), VALUE_CLASSES)
        \o <<Get(base, "nominal", 0)>>

extract_hand_features(hand) ==
    LET cards == Get(hand, "cards", <<>>)
        head == <<Get(hand, "size", 0), Get(hand, "highlighted_count", 0)>>
    IN  IF hand.cards_type # "list" /\ Len(cards) > 0
        \* iterating a JSON object yields its keys, strings, which have no get()
        THEN [raised |-> "AttributeError", value |-> <<>>]
        ELSE LET features == head \o Flatten([i \in 1..Len(cards) |-> card_features(cards[i])])
             IN  [raised |-> "none",
                  value |-> IF Len(features) = NON_CARDS_FEATURES
                            THEN features \o Zeros(max_cards * features_per_card)
                            ELSE features]

extract_round_features(round) ==
    <<Get(round, "hands_left", 0), Get(round, "discards_left", 0)>>

\* mutant: a hand name outside the list is encoded as "None"
extract_current_hand_scoring_UnknownIsNone(current_hand) ==
    LET raw == Get(current_hand, "handname", "None")
        hand_name == IF raw = "" THEN "None" ELSE raw
        hand_index == IF IndexOf(hand_types, hand_name) < 0 THEN 0
                      ELSE IndexOf(hand_types, hand_name)
    IN  [raised |-> "none",
         value |-> <<Get(current_hand, "chips", 0), Get(current_hand, "mult", 0),
                     Get(current_hand, "score", 0)>>
                   \o make_onehot(hand_index, Len(hand_types))]

extract_current_hand_scoring(current_hand) ==
    LET raw == Get(current_hand, "handname", "None")
        hand_name == IF raw = "" THEN "None" ELSE raw
        hand_index == IndexOf(hand_types, hand_name)
    IN  IF hand_index < 0
        THEN [raised |-> "ValueError", value |-> <<>>]
        ELSE [raised |-> "none",
              value |-> <<Get(current_hand, "chips", 0), Get(current_hand, "mult", 0),
                          Get(current_hand, "score", 0)>>
                        \o make_onehot(hand_index, Len(hand_types))]

extract_game_features(state) ==
    LET hand == extract_hand_features(Get(state, "hand", EmptyHand))
        scoring == extract_current_hand_scoring(Get(state, "current_hand", EmptyCurrentHand))
    IN  IF hand.raised # "none" THEN hand
        ELSE IF scoring.raised # "none" THEN scoring
        ELSE [raised |-> "none",
              value |-> extract_round_features(Get(state, "round", EmptyRound))
                        \o <<Get(state, "blind_chips", 0)>>
                        \o <<Get(state, "chips", 0)>>
                        \o make_onehot(Get(state, "state", 0), STATE_CLASSES)
                        \o <<Get(state, "game_over", 0)>>
                        \o <<Get(state, "retry_count", 0)>>
                        \o hand.value
                        \o scoring.value]

extract_available_actions(available_actions) == make_mask(available_actions, MAX_ACTIONS)

\* the exceptions the try statement around validate_game_state catches
MapperCaught == {"ValueError"}

\* the part of process_game_state after the guard: the validator inside its
\* try statement, then the extraction
validate_and_extract(raw) ==
    LET v == validate_game_state(raw)
        game == extract_game_features(Get(raw, "game_state", EmptyGameState))
    IN  IF v # "none" /\ v \notin MapperCaught
        THEN [raised |-> v, value |-> <<>>, validated |-> TRUE, logged |-> FALSE]
        ELSE IF game.raised # "none"
        THEN [raised |-> game.raised, value |-> <<>>,
              validated |-> TRUE, logged |-> v # "none"]
        ELSE [raised |-> "none",
              value |-> game.value
                        \o extract_available_actions(Get(raw, "available_actions", <<>>)),
              validated |-> TRUE, logged |-> v # "none"]

ZeroObservation ==
    [raised |-> "none", value |-> Zeros(OBSERVATION_SIZE),
     validated |-> FALSE, logged |-> FALSE]

\* mutant: the guard tests "raw_state is None" instead of "not raw_state"
process_game_state_NoneOnly(raw) ==
    IF raw.kind = "None" THEN ZeroObservation ELSE validate_and_extract(raw)

\* process_game_state(raw_state): [raised, value, validated, logged], where
\* validated tells whether the validator ran and logged whether its failure
\* was logged
process_game_state(raw) ==
    IF ~Truthy(raw) THEN ZeroObservation ELSE validate_and_extract(raw)

(***************************************************************************)
(* validation.py: ResponseValidator, and the command document.             *)
(***************************************************************************)
\* "unserializable" is the set of keys whose value json cannot encode
ResponseDoc(action, params) ==
    [keys |-> {"action", "params"}, mistyped |-> {}, unserializable |-> {},
     action |-> action, params |-> params]

\* the exception validate_response raises, "none" when it returns
validate_response(response) ==
    IF AssertFields(response, {"action", "params"}) # "none" THEN "AssertionError"
    ELSE IF "action" \in response.mistyped THEN "AssertionError"
    ELSE IF "params" \in response.mistyped THEN "AssertionError"
    ELSE "none"

(***************************************************************************)
(* balatro_env.py: the layout of the flat action vector.                   *)
(* mappers.py: BalatroActionMapper.                                        *)
(***************************************************************************)
ACTION_SLICE_LAYOUT ==
    <<[name |-> "action_selection", size |-> 1],
      [name |-> "card_indices", size |-> MAX_CARDS]>>

RECURSIVE SumSizes(_, _)
SumSizes(layout, n) == IF n = 0 THEN 0 ELSE layout[n].size + SumSizes(layout, n - 1)

\* name -> slice(start, start + size)
build_action_slices(layout) ==
    [name \in {layout[i].name : i \in 1..Len(layout)} |->
        LET i == CHOOSE j \in 1..Len(layout) : layout[j].name = name IN
            [start |-> SumSizes(layout, i - 1), stop |-> SumSizes(layout, i)]]

slices == build_action_slices(ACTION_SLICE_LAYOUT)

\* vec[sl]: Python slicing, which clamps to the length of the vector
SliceOf(vec, sl) ==
    LET stop == IF sl.stop < Len(vec) THEN sl.stop ELSE Len(vec) IN
        IF sl.start >= stop THEN <<>> ELSE SubSeq(vec, sl.start + 1, stop)

\* mutant: an index outside the table is passed on unchanged
ai_to_balatro_mapping_PassThrough(ai_action) ==
    CASE ai_action = 0 -> 1 [] ai_action = 1 -> 2 [] ai_action = 2 -> 3
      [] OTHER -> ai_action

\* ai_to_balatro_mapping.get(ai_action, 1)
ai_to_balatro_mapping(ai_action) ==
    CASE ai_action = 0 -> 1 [] ai_action = 1 -> 2 [] ai_action = 2 -> 3
      [] OTHER -> 1

\* [i + 1 for i, val in enumerate(l) if val == 1], for the entries from..Len(l)
RECURSIVE SelectedFrom(_, _)
SelectedFrom(l, from) ==
    IF from > Len(l) THEN <<>>
    ELSE (IF l[from] = 1 THEN <<from>> ELSE <<>>) \o SelectedFrom(l, from + 1)

\* mutant: the positions are taken in the whole vector, the action-selection
\* entry included
extract_select_hand_params_WholeVector(raw_action) == SelectedFrom(raw_action, 1)

extract_select_hand_params(raw_action) ==
    SelectedFrom(SliceOf(raw_action, slices["card_indices"]), 1)

\* the exceptions the try statement around the second validate_response catches
ActionCaught == {"ValueError"}

\* the end of process_action: validate_response once outside a try statement and
\* once inside one, then the return of the command
validate_then_return(response_data) ==
    LET v == validate_response(response_data) IN
        IF v # "none" THEN [raised |-> v, value |-> response_data]
        ELSE IF v # "none" /\ v \notin ActionCaught THEN [raised |-> v, value |-> response_data]
        ELSE [raised |-> "none", value |-> response_data]

\* process_action(rl_action): [raised, value]
process_action(action) ==
    LET selection == SliceOf(action, slices["action_selection"]) IN
        IF selection = <<>>
        THEN [raised |-> "IndexError", value |-> ResponseDoc(0, <<>>)]
        ELSE validate_then_return(ResponseDoc(ai_to_balatro_mapping(selection[1]),
                                              extract_select_hand_params(action)))

(***************************************************************************)
(* communication.py: BalatroPipeIO.                                        *)
(* A request line is [t, doc]: t tells what the line holds ("json": one    *)
(* JSON document, doc; "malformed": text json.loads rejects; "blank":      *)
(* white space only; "undecodable": bytes that are no text), and "eof" is  *)
(* readline's empty result at the end of the file.  What is written to     *)
(* the response handle is a sequence of tokens [t, doc]: "doc" a whole     *)
(* serialized document, "partial" the part of a document json.dump wrote   *)
(* before it failed, "nl" the newline.                                     *)
(***************************************************************************)
JsonLine(doc) == [t |-> "json", doc |-> doc]
MalformedLine == [t |-> "malformed", doc |-> None]
BlankLine == [t |-> "blank", doc |-> None]
UndecodableLine == [t |-> "undecodable", doc |-> None]
EndOfFile == [t |-> "eof", doc |-> None]

NoResponse == ResponseDoc(0, <<>>)
DocToken(doc) == [t |-> "doc", doc |-> doc]
PartialToken(doc) == [t |-> "partial", doc |-> doc]
NewlineToken == [t |-> "nl", doc |-> NoResponse]

\* the number of complete lines among the tokens
Lines(tokens) == Cardinality({i \in 1..Len(tokens) : tokens[i].t = "nl"})

\* the body of wait_for_request's try statement, given what readline returned
read_and_parse(line) ==
    CASE line.t = "undecodable" -> [raised |-> "UnicodeDecodeError", doc |-> None]
      [] line.t \in {"eof", "blank"} -> [raised |-> "none", doc |-> None]
      [] line.t = "malformed" -> [raised |-> "JSONDecodeError", doc |-> None]
      [] line.t = "json" -> [raised |-> "none", doc |-> line.doc]

\* what a call of the channel did: the exception it raised, the document
\* (wait_for_request) or the boolean (send_response) it returned, what it logged
\* as an error, the line it read, the document it was given, and the statements
\* of send_response's try body that completed
NoPipeRet ==
    [op |-> "none", raised |-> "none", doc |-> None, ok |-> FALSE,
     steps |-> <<>>, logged |-> "", line |-> EndOfFile, arg |-> NoResponse]

\* mutant: the handler "except Exception" is missing
wait_for_request_OnlyJSONDecodeError(handle, line) ==
    LET r == read_and_parse(line)
        ret == [NoPipeRet EXCEPT !.op = "wait_for_request", !.line = line]
    IN  IF handle = "None" THEN [ret EXCEPT !.logged = "Request handle not open",
                                            !.line = EndOfFile]
        ELSE IF r.raised = "JSONDecodeError" THEN [ret EXCEPT !.logged = "Invalid JSON in request"]
        ELSE [ret EXCEPT !.raised = r.raised, !.doc = r.doc]

\* mutant: the test "if not self.request_handle" is missing
wait_for_request_NoHandleTest(handle, line) ==
    LET r == read_and_parse(line)
        ret == [NoPipeRet EXCEPT !.op = "wait_for_request", !.line = line]
    IN  IF handle = "None" THEN [ret EXCEPT !.raised = "AttributeError", !.line = EndOfFile]
        ELSE IF r.raised = "JSONDecodeError" THEN [ret EXCEPT !.logged = "Invalid JSON in request"]
        ELSE IF r.raised # "none" THEN [ret EXCEPT !.logged = "Error reading from request pipe"]
        ELSE [ret EXCEPT !.doc = r.doc]

\* wait_for_request, given the handle and what readline returns
wait_for_request(handle, line) ==
    LET r == read_and_parse(line)
        ret == [NoPipeRet EXCEPT !.op = "wait_for_request", !.line = line]
    IN  IF handle = "None" THEN [ret EXCEPT !.logged = "Request handle not open",
                                            !.line = EndOfFile]
        ELSE IF r.raised = "JSONDecodeError" THEN [ret EXCEPT !.logged = "Invalid JSON in request"]
        ELSE IF r.raised # "none" THEN [ret EXCEPT !.logged = "Error reading from request pipe"]
        ELSE [ret EXCEPT !.doc = r.doc]

\* json can encode the document
Serializable(doc) == doc.unserializable = {}

\* mutant: True is returned as soon as the document is written, before the flush
send_response_NoFlush(handle, response_data, buffer, reader) ==
    LET ret == [NoPipeRet EXCEPT !.op = "send_response", !.arg = response_data] IN
        IF handle = "None"
        THEN [ret |-> [ret EXCEPT !.logged = "Response handle not open"],
              buffer |-> buffer, flushed |-> <<>>]
        ELSE IF ~Serializable(response_data)
        THEN [ret |-> [ret EXCEPT !.logged = "ERROR sending response"],
              buffer |-> buffer \o <<PartialToken(response_data)>>, flushed |-> <<>>]
        ELSE [ret |-> [ret EXCEPT !.ok = TRUE, !.steps = <<"dump", "newline">>],
              buffer |-> buffer \o <<DocToken(response_data), NewlineToken>>,
              flushed |-> <<>>]

\* send_response: [ret, buffer, flushed]: what it returns, what it leaves in the
\* handle's buffer and what it flushes into the pipe.  ret.steps lists the
\* statements of the try body that completed.
send_response(handle, response_data, buffer, reader) ==
    LET ret == [NoPipeRet EXCEPT !.op = "send_response", !.arg = response_data] IN
        IF handle = "None"
        THEN [ret |-> [ret EXCEPT !.logged = "Response handle not open"],
              buffer |-> buffer, flushed |-> <<>>]
        ELSE IF ~Serializable(response_data)
        \* json.dump raises TypeError after it wrote the part it could encode
        THEN [ret |-> [ret EXCEPT !.logged = "ERROR sending response"],
              buffer |-> buffer \o <<PartialToken(response_data)>>, flushed |-> <<>>]
        ELSE IF ~reader
        \* flush raises BrokenPipeError; what was written stays in the buffer
        THEN [ret |-> [ret EXCEPT !.logged = "ERROR sending response",
                                  !.steps = <<"dump", "newline">>],
              buffer |-> buffer \o <<DocToken(response_data), NewlineToken>>,
              flushed |-> <<>>]
        ELSE [ret |-> [ret EXCEPT !.ok = TRUE, !.steps = <<"dump", "newline", "flush">>],
              buffer |-> <<>>,
              flushed |-> buffer \o <<DocToken(response_data), NewlineToken>>]

\* send_response can proceed: its flush blocks while the pipe is full
CanSend(response_data) ==
    \/ response_handle = "None"
    \/ ~Serializable(response_data)
    \/ ~game_reader
    \/ Lines(response_pipe) < MaxPipe

\* readline can return: a line is there, or the game has closed its end
CanRead == request_pipe # <<>> \/ ~game_writer

NextLine == IF request_pipe # <<>> THEN Head(request_pipe) ELSE EndOfFile

RestOfPipe == IF request_pipe # <<>> THEN Tail(request_pipe) ELSE request_pipe

\* cleanup_handles: close() flushes what the buffer holds if the game still reads
ClosedResponsePipe ==
    IF response_handle = "open" /\ game_reader
    THEN response_pipe \o response_buffer ELSE response_pipe

(***************************************************************************)
(* reward.py: BalatroRewardCalculator.  Rewards are counted in tenths.     *)
(***************************************************************************)
REWARD_THRESHOLDS == [excellent |-> 80, good |-> 50, decent |-> 25]

\* the fields after __init__; game_over_penalty_applied tells whether the
\* attribute of that name exists
NewRewardCalculator ==
    [previous_chips |-> 0, previous_hand_played |-> "None",
     blind_already_defeated |-> FALSE, episode_count |-> 0, wins |-> 0,
     hands_played |-> <<>>, episode_total_reward |-> 0,
     last_seen_hand_type |-> "Unknown", winning_chips |-> 0,
     game_over_penalty_applied |-> FALSE]

\* _track_hand_played: the entry appended to hands_played
track_hand_played(chip_gain, current_hand_played, current_chips) ==
    [chips |-> chip_gain,
     hand_type |-> IF current_hand_played # "None" THEN current_hand_played ELSE "Unknown",
     total_chips |-> current_chips]

\* mutant: the two highest tiers are exchanged
hand_reward_TiersExchanged(chip_gain, blind_chips) ==
    IF chip_gain * 100 >= REWARD_THRESHOLDS.excellent * blind_chips THEN 40
    ELSE IF chip_gain * 100 >= REWARD_THRESHOLDS.good * blind_chips THEN 100
    ELSE IF chip_gain * 100 >= REWARD_THRESHOLDS.decent * blind_chips THEN 10
    ELSE 5

\* the reward of a hand that gained chip_gain chips against blind_chips
hand_reward(chip_gain, blind_chips) ==
    IF chip_gain * 100 >= REWARD_THRESHOLDS.excellent * blind_chips THEN 100
    ELSE IF chip_gain * 100 >= REWARD_THRESHOLDS.good * blind_chips THEN 40
    ELSE IF chip_gain * 100 >= REWARD_THRESHOLDS.decent * blind_chips THEN 10
    ELSE 5

\* the test of the core scoring rewards
core_scoring(chip_gain, game_over_flag, claimed, blind_chips) ==
    chip_gain > 0 /\ game_over_flag = 0 /\ ~claimed /\ blind_chips > 0

\* mutant: the test "not self.blind_already_defeated" is missing
blind_completion_NoClaimedTest(blind_defeated, claimed, game_over_flag) ==
    blind_defeated /\ game_over_flag = 0

\* the test of the blind completion reward
blind_completion(blind_defeated, claimed, game_over_flag) ==
    blind_defeated /\ ~claimed /\ game_over_flag = 0

\* mutant: the test "not self.blind_already_defeated" is missing
game_over_penalty_NoClaimedTest(game_over_flag, applied, claimed) ==
    game_over_flag = 1 /\ ~applied

\* the test of the game over penalty; applied tells whether the attribute
\* game_over_penalty_applied exists
game_over_penalty(game_over_flag, applied, claimed) ==
    game_over_flag = 1 /\ ~applied /\ ~claimed

\* calculate_reward(current_state, prev_state) on the calculator rc:
\* [reward, rc], the reward returned and the calculator after the call
calculate_reward(rc, cur, prev) ==
    LET inner_game_state == Get(cur, "game_state", EmptyGameState)
        current_chips == Get(inner_game_state, "chips", 0)
        game_over_flag == Get(inner_game_state, "game_over", 0)
        retry_count == Get(inner_game_state, "retry_count", 0)
        retry_penalty == IF retry_count > 0 THEN (-1) * retry_count ELSE 0
        blind_chips == Get(inner_game_state, "blind_chips", 300)
        blind_defeated == Get(inner_game_state, "game_win", 0) # 0
        current_hand_info == Get(inner_game_state, "current_hand", EmptyCurrentHand)
        current_hand_played == Get(current_hand_info, "handname", "None")
        last_seen == IF current_hand_played \notin {"None", ""}
                     THEN current_hand_played ELSE rc.last_seen_hand_type
        chip_gain == current_chips - rc.previous_chips
        scored == core_scoring(chip_gain, game_over_flag, rc.blind_already_defeated,
                               blind_chips)
        scoring == IF scored THEN hand_reward(chip_gain, blind_chips) ELSE 0
        completed == blind_completion(blind_defeated, rc.blind_already_defeated,
                                      game_over_flag)
        penalised == game_over_penalty(game_over_flag, rc.game_over_penalty_applied,
                                       rc.blind_already_defeated \/ completed)
        reward == retry_penalty + scoring
                      + (IF completed THEN 500 ELSE 0)
                      - (IF penalised THEN 200 ELSE 0)
        reward_breakdown ==
            (IF retry_count > 0 THEN <<[part |-> "retry_penalty", value |-> retry_penalty]>>
             ELSE <<>>)
            \o (IF scored THEN <<[part |-> "hand", value |-> scoring]>> ELSE <<>>)
            \o (IF completed THEN <<[part |-> "BLIND DEFEATED", value |-> 500]>> ELSE <<>>)
            \o (IF penalised THEN <<[part |-> "Game over", value |-> -200]>> ELSE <<>>)
    IN  [reward |-> reward,
         breakdown |-> reward_breakdown,
         rc |-> [rc EXCEPT
                   !.last_seen_hand_type = last_seen,
                   !.hands_played =
                       IF scored
                       THEN Append(@, track_hand_played(chip_gain, last_seen, current_chips))
                       ELSE @,
                   !.blind_already_defeated = @ \/ completed,
                   !.winning_chips = IF completed THEN current_chips ELSE @,
                   !.game_over_penalty_applied = @ \/ penalised,
                   !.episode_total_reward = @ + reward,
                   !.previous_chips = current_chips,
                   !.previous_hand_played = current_hand_played]]

\* mutant: the claimed flag survives the reset
reset_reward_calculator_KeepsClaim(rc) ==
    [rc EXCEPT !.episode_count = @ + 1,
               !.wins = IF rc.blind_already_defeated THEN @ + 1 ELSE @,
               !.previous_chips = 0,
               !.previous_hand_played = "None",
               !.hands_played = <<>>,
               !.episode_total_reward = 0,
               !.last_seen_hand_type = "Unknown",
               !.winning_chips = 0,
               !.game_over_penalty_applied = FALSE]

\* mutant: the attribute game_over_penalty_applied is not deleted
reset_reward_calculator_KeepsPenaltyFlag(rc) ==
    [rc EXCEPT !.episode_count = @ + 1,
               !.wins = IF rc.blind_already_defeated THEN @ + 1 ELSE @,
               !.previous_chips = 0,
               !.previous_hand_played = "None",
               !.blind_already_defeated = FALSE,
               !.hands_played = <<>>,
               !.episode_total_reward = 0,
               !.last_seen_hand_type = "Unknown",
               !.winning_chips = 0]

\* BalatroRewardCalculator.reset
reset_reward_calculator(rc) ==
    [rc EXCEPT !.episode_count = @ + 1,
               !.wins = IF rc.blind_already_defeated THEN @ + 1 ELSE @,
               !.previous_chips = 0,
               !.previous_hand_played = "None",
               !.blind_already_defeated = FALSE,
               !.hands_played = <<>>,
               !.episode_total_reward = 0,
               !.last_seen_hand_type = "Unknown",
               !.winning_chips = 0,
               !.game_over_penalty_applied = FALSE]

(***************************************************************************)
(* replay.py: ReplaySystem.  The file is [kind, replays]: kind "missing"   *)
(* when it does not exist, "list" when it holds a JSON array, "single"     *)
(* when it holds an object with the key "replay" (replays is then the list *)
(* of that one replay), "other" for any other JSON value and "undecodable" *)
(* when it is not JSON.                                                    *)
(***************************************************************************)
MAX_REPLAYS == 10

NoReplayFile == [kind |-> "missing", replays |-> <<>>]

load_replays(file) == IF file.kind \in {"list", "single"} THEN file.replays ELSE <<>>

\* the place of replay r in a list sorted by score, highest first, behind the
\* entries of the same score (list.sort is stable)
RECURSIVE InsertByScore(_, _)
InsertByScore(sorted, r) ==
    IF sorted = <<>> THEN <<r>>
    ELSE IF Head(sorted).score >= r.score THEN <<Head(sorted)>> \o InsertByScore(Tail(sorted), r)
    ELSE <<r>> \o sorted

\* replays.sort(key=lambda x: x['score'], reverse=True)
RECURSIVE SortByScore(_)
SortByScore(replays) ==
    IF replays = <<>> THEN <<>>
    ELSE InsertByScore(SortByScore(SubSeq(replays, 1, Len(replays) - 1)),
                       replays[Len(replays)])

\* the replay has the key 'score'
HasScore(replay) == "score" \in DOMAIN replay

\* mutant: the lowest replay is replaced without comparing the scores
try_save_replay_NoScoreTest(file, seed, actions, score, chips) ==
    LET replay_data == [seed |-> seed, timestamp |-> "now", chips |-> chips,
                        score |-> score, actions |-> actions]
        replays == load_replays(file)
        ranked == SortByScore(replays)
        changed == IF Len(replays) < MAX_REPLAYS THEN Append(replays, replay_data)
                   ELSE [ranked EXCEPT ![Len(ranked)] = replay_data]
        kept == SubSeq(SortByScore(changed), 1,
                       IF Len(changed) < MAX_REPLAYS THEN Len(changed) ELSE MAX_REPLAYS)
    IN  IF \E i \in 1..Len(replays) : ~HasScore(replays[i])
        THEN [file |-> file, count |-> 0, raised |-> "KeyError"]
        ELSE [file |-> [kind |-> "list", replays |-> kept], count |-> Len(kept),
              raised |-> "none"]

\* mutant: a score equal to the lowest replaces it (>= for >)
try_save_replay_ReplacesOnTie(file, seed, actions, score, chips) ==
    LET replay_data == [seed |-> seed, timestamp |-> "now", chips |-> chips,
                        score |-> score, actions |-> actions]
        replays == load_replays(file)
        ranked == SortByScore(replays)
        replaces == Len(replays) >= MAX_REPLAYS /\ score >= ranked[Len(ranked)].score
        changed == IF Len(replays) < MAX_REPLAYS THEN Append(replays, replay_data)
                   ELSE [ranked EXCEPT ![Len(ranked)] = replay_data]
        kept == SubSeq(SortByScore(changed), 1,
                       IF Len(changed) < MAX_REPLAYS THEN Len(changed) ELSE MAX_REPLAYS)
    IN  IF \E i \in 1..Len(replays) : ~HasScore(replays[i])
        THEN [file |-> file, count |-> 0, raised |-> "KeyError"]
        ELSE IF Len(replays) < MAX_REPLAYS \/ replaces
        THEN [file |-> [kind |-> "list", replays |-> kept], count |-> Len(kept),
              raised |-> "none"]
        ELSE [file |-> file, count |-> Len(replays), raised |-> "none"]

\* try_save_replay: [file, count, raised], the file after the call, the value
\* returned and the exception that left the call; the sort raises KeyError on
\* a replay without 'score', before anything is written
\* mutant: with the file full, the new replay takes the place of the lowest
\* whatever its score
ReplaySystem_try_save_replay_AlwaysReplaces(max_replays, file, seed, actions, score, chips) ==
    LET replay_data == [seed |-> seed, timestamp |-> "now", chips |-> chips,
                        score |-> score, actions |-> actions]
        replays == load_replays(file)
        ranked == SortByScore(replays)
    IN  IF \E i \in 1..Len(replays) : ~HasScore(replays[i])
        THEN [file |-> file, count |-> 0, raised |-> "KeyError"]
        ELSE IF Len(replays) < max_replays
        THEN LET kept == SubSeq(SortByScore(Append(replays, replay_data)), 1,
                                IF Len(replays) + 1 < max_replays
                                THEN Len(replays) + 1 ELSE max_replays)
             IN  [file |-> [kind |-> "list", replays |-> kept], count |-> Len(kept),
                  raised |-> "none"]
        ELSE IF TRUE
        THEN LET kept == SubSeq(SortByScore([ranked EXCEPT ![Len(ranked)] = replay_data]),
                                1, max_replays)
             IN  [file |-> [kind |-> "list", replays |-> kept], count |-> Len(kept),
                  raised |-> "none"]
        ELSE [file |-> file, count |-> Len(replays), raised |-> "none"]

\* try_save_replay of ReplaySystem(max_replays)
ReplaySystem_try_save_replay(max_replays, file, seed, actions, score, chips) ==
    LET replay_data == [seed |-> seed, timestamp |-> "now", chips |-> chips,
                        score |-> score, actions |-> actions]
        replays == load_replays(file)
        ranked == SortByScore(replays)
    IN  IF \E i \in 1..Len(replays) : ~HasScore(replays[i])
        THEN [file |-> file, count |-> 0, raised |-> "KeyError"]
        ELSE IF Len(replays) < max_replays
        THEN LET kept == SubSeq(SortByScore(Append(replays, replay_data)), 1,
                                IF Len(replays) + 1 < max_replays
                                THEN Len(replays) + 1 ELSE max_replays)
             IN  [file |-> [kind |-> "list", replays |-> kept], count |-> Len(kept),
                  raised |-> "none"]
        ELSE IF score > ranked[Len(ranked)].score
        THEN LET kept == SubSeq(SortByScore([ranked EXCEPT ![Len(ranked)] = replay_data]),
                                1, max_replays)
             IN  [file |-> [kind |-> "list", replays |-> kept], count |-> Len(kept),
                  raised |-> "none"]
        ELSE [file |-> file, count |-> Len(replays), raised |-> "none"]

\* try_save_replay of ReplaySystem(), whose max_replays is 10
try_save_replay(file, seed, actions, score, chips) ==
    ReplaySystem_try_save_replay(MAX_REPLAYS, file, seed, actions, score, chips)

(***************************************************************************)
(* balatro_env.py: BalatroEnv._create_action_mask                          *)
(***************************************************************************)
balatro_to_ai_mapping == [id \in {1, 2, 3} |-> id - 1]

\* mutant: the card slots are forced to "not selected" only when PLAY_HAND
\* and DISCARD_HAND are both available
create_action_mask_BothNeeded(available_actions) ==
    LET ids == {available_actions[i] : i \in 1..Len(available_actions)}
        action_selection_mask ==
            [i \in 1..MAX_ACTIONS |->
                \E id \in ids \cap DOMAIN balatro_to_ai_mapping :
                    balatro_to_ai_mapping[id] = i - 1]
        card_mask == IF {2, 3} \subseteq ids THEN <<TRUE, FALSE>> ELSE <<TRUE, TRUE>>
    IN  action_selection_mask \o Flatten([i \in 1..MAX_CARDS |-> card_mask])

create_action_mask(available_actions) ==
    LET ids == {available_actions[i] : i \in 1..Len(available_actions)}
        action_selection_mask ==
            [i \in 1..MAX_ACTIONS |->
                \E id \in ids \cap DOMAIN balatro_to_ai_mapping :
                    balatro_to_ai_mapping[id] = i - 1]
        card_mask == IF ids \cap {2, 3} # {} THEN <<TRUE, FALSE>> ELSE <<TRUE, TRUE>>
    IN  action_selection_mask \o Flatten([i \in 1..MAX_CARDS |-> card_mask])

(***************************************************************************)
(* Inputs of the state mapper: well-formed snapshots with hands of         *)
(* 0..MaxHandLen cards, and each of them with one defect.                  *)
(***************************************************************************)
Deck ==
    <<Card("Hearts", "2", 2, FALSE), Card("Spades", "King", 10, TRUE),
      Card("Clubs", "Ace", 11, FALSE), Card("Diamonds", "10", 10, TRUE),
      Card("Stars", "Stone", 50, FALSE)>>

\* the hand of n cards dealt from the deck starting after its k-th card
DealHand(n, k) == [i \in 1..n |-> Deck[((i + k - 1) % Len(Deck)) + 1]]

AvailableActionLists == {<<>>, <<1>>, <<1, 2>>, <<1, 2, 3>>}

HandNames == {"None", "Pair", "Flush Five"}

Snapshot(n, k, actions, handname) ==
    RequestDoc(GameStateDoc(HandDoc(DealHand(n, k)), 120, 0, 0,
                            CurrentHandDoc(30, 4, 120, handname)),
               actions, 0)

Without(d, k) == [d EXCEPT !.keys = @ \ {k}]

Defects ==
    {"none", "no_retry_count", "retry_count_str", "no_available_actions",
     "no_game_state", "no_hand", "no_round", "no_blind", "no_ante", "no_game_over",
     "game_over_2", "state_str", "no_hand_size", "cards_dict", "card_no_debuff",
     "base_no_value", "bad_handname", "no_current_hand", "card_no_suit",
     "no_handname", "empty_handname"}

\* the last card of the hand changed by f (the hand is left alone when empty)
WithLastCard(doc, f(_)) ==
    LET cards == doc.game_state.hand.cards IN
        IF cards = <<>> THEN doc
        ELSE [doc EXCEPT !.game_state.hand.cards[Len(cards)] = f(@)]

DropDebuff(card) == Without(card, "debuff")

DropBaseValue(card) == [card EXCEPT !.base = Without(@, "value")]

DropSuit(card) == Without(card, "suit")

ApplyDefect(doc, defect) ==
    CASE defect = "none" -> doc
      [] defect = "no_retry_count" -> Without(doc, "retry_count")
      [] defect = "retry_count_str" -> [doc EXCEPT !.mistyped = {"retry_count"}]
      [] defect = "no_available_actions" -> Without(doc, "available_actions")
      [] defect = "no_game_state" -> Without(doc, "game_state")
      [] defect = "no_hand" -> [doc EXCEPT !.game_state = Without(@, "hand")]
      [] defect = "no_round" -> [doc EXCEPT !.game_state = Without(@, "round")]
      [] defect = "no_blind" -> [doc EXCEPT !.game_state = Without(@, "blind")]
      [] defect = "no_ante" -> [doc EXCEPT !.game_state = Without(@, "ante")]
      [] defect = "no_game_over" -> [doc EXCEPT !.game_state = Without(@, "game_over")]
      [] defect = "game_over_2" -> [doc EXCEPT !.game_state.game_over = 2]
      [] defect = "state_str" -> [doc EXCEPT !.game_state.mistyped = {"state"}]
      [] defect = "no_hand_size" -> [doc EXCEPT !.game_state.hand = Without(@, "size")]
      [] defect = "cards_dict" -> [doc EXCEPT !.game_state.hand.cards_type = "dict"]
      [] defect = "card_no_debuff" -> WithLastCard(doc, DropDebuff)
      [] defect = "base_no_value" -> WithLastCard(doc, DropBaseValue)
      [] defect = "bad_handname" -> [doc EXCEPT !.game_state.current_hand.handname = "Royal Flush"]
      [] defect = "no_current_hand" -> [doc EXCEPT !.game_state = Without(@, "current_hand")]
      [] defect = "card_no_suit" -> WithLastCard(doc, DropSuit)
      [] defect = "no_handname" ->
            [doc EXCEPT !.game_state.current_hand = Without(@, "handname")]
      [] defect = "empty_handname" -> [doc EXCEPT !.game_state.current_hand.handname = ""]

MapperInputs ==
    {None, EmptyDict} \cup
    {ApplyDefect(Snapshot(n, k, actions, handname), defect) :
        n \in 0..MaxHandLen, k \in 0..MaxDeckShift,
        actions \in AvailableActionLists, handname \in HandNames, defect \in Defects}

NoMapResult == [raised |-> "none", value |-> <<>>, validated |-> FALSE, logged |-> FALSE]

(***************************************************************************)
(* SpecMapper: one call of process_game_state on any of the inputs.        *)
(***************************************************************************)
MapperIdle == raw_state = None /\ map_result = NoMapResult /\ mpc = "idle"

NoActResult == [raised |-> "none", value |-> ResponseDoc(0, <<>>)]

ActionIdle == rl_action = <<>> /\ act_result = NoActResult /\ apc = "idle"

\* the channel as the constructor leaves it: both pipes made, both handles
\* open, which they are once the game has opened its two ends
ChannelOpen ==
    /\ request_handle = "open"
    /\ response_handle = "open"
    /\ pipe_files = {"request", "response"}
    /\ game_opening = <<>>
    /\ request_pipe = <<>>
    /\ response_buffer = <<>>
    /\ response_pipe = <<>>
    /\ game_writer = TRUE
    /\ game_reader = TRUE

PipeIdle == ChannelOpen /\ ppc = "idle" /\ pipe_ret = NoPipeRet

\* what a call of reset or step did: whether it has returned or raised, the
\* exception, and the observation, reward, terminated, truncated and
\* info["timeout"] it returned
NoEnvRet ==
    [call |-> "none", returned |-> FALSE, raised |-> "none", observation |-> <<>>,
     reward |-> 0, terminated |-> FALSE, truncated |-> FALSE, timeout |-> FALSE]

\* the environment as BalatroEnv.__init__ leaves it.  epc is "constructed"
\* before the first reset, "reset_wait" and "step_wait" inside the readline of
\* reset and of step, "ready" after a call that returned with the episode
\* running, "terminated" after a step that returned terminated, and "raised"
\* after a call that raised.
\* what a call of the calculator under test did: the state it was given, the
\* reward it returned with its components, the reward the fresh calculator
\* returned for the same state, and how many times the milestone bonus and
\* the game-over penalty were added since the last reset
\* the scores with s among them, highest first
RECURSIVE InsertScore(_, _)
InsertScore(scores, s) ==
    IF scores = <<>> THEN <<s>>
    ELSE IF Head(scores) >= s THEN <<Head(scores)>> \o InsertScore(Tail(scores), s)
    ELSE <<s>> \o scores

NoRewardRet ==
    [op |-> "none", state |-> None, reward |-> 0, breakdown |-> <<>>,
     fresh_reward |-> 0, bonuses |-> 0, penalties |-> 0, fed |-> 0]

\* nothing saved yet; saves counts the calls, offered holds their scores and
\* from_empty tells whether the file held no replay before the first call;
\* max_replays is the capacity the ReplaySystem was constructed with and
\* submitted lists the scores of the calls, highest first
NoReplayRet ==
    [op |-> "none", score |-> 0, count |-> 0, raised |-> "none", saves |-> 0,
     offered |-> {}, from_empty |-> FALSE, max_replays |-> MAX_REPLAYS, submitted |-> <<>>]

\* the paths BalatroPipeIO() uses when it is given none
DefaultPipes ==
    [request_pipe |-> "/tmp/balatro_request", response_pipe |-> "/tmp/balatro_response"]

PipePaths == {DefaultPipes.request_pipe, DefaultPipes.response_pipe}

\* no BalatroPipeIO yet.  files gives the pipe file at each path, 0 when
\* there is none, the files numbered in the order of their creation (made
\* of them so far); envs gives the fields of each object, a handle being the
\* number of the file it has open, 0 for None
NoInstances ==
    [files |-> [path \in PipePaths |-> 0],
     made |-> 0,
     envs |-> [i \in 1..MaxEnvs |->
                  [pc |-> "absent", request_pipe |-> "", response_pipe |-> "",
                   request_handle |-> 0, response_handle |-> 0]]]

\* no script: the environment is driven by any caller.  pc is the place of
\* the script, env_bound tells whether its local variable env is assigned and
\* raised names the exception that left it
NoEntryPoint == [script |-> "none", pc |-> "none", env_bound |-> FALSE, raised |-> "none"]

RewardIdle ==
    /\ fresh_calculator = NewRewardCalculator
    /\ reward_ret = NoRewardRet
    /\ replay_ret = NoReplayRet
    /\ instances = NoInstances
    /\ entry_point = NoEntryPoint

EnvIdle ==
    /\ epc = "constructed"
    /\ current_state = None
    /\ prev_state = None
    /\ game_over = FALSE
    /\ restart_pending = FALSE
    /\ actions_taken = <<>>
    /\ action_masks = <<>>
    /\ reward_calculator = NewRewardCalculator
    /\ replay_file = NoReplayFile
    /\ env_ret = NoEnvRet
    /\ io_log = <<>>
    /\ calls = 0

InitMapper ==
    /\ raw_state \in MapperInputs
    /\ map_result = NoMapResult
    /\ mpc = "call"
    /\ ActionIdle
    /\ PipeIdle
    /\ EnvIdle
    /\ RewardIdle

ProcessGameState ==
    /\ mpc = "call"
    /\ map_result' = process_game_state(raw_state)
    /\ mpc' = "done"
    /\ UNCHANGED <<raw_state, actVars, rewVars, pipeVars, envVars>>

NextMapper == ProcessGameState

SpecMapper == InitMapper /\ [][NextMapper]_vars

(***************************************************************************)
(* Claims about the state mapper (checked under SpecMapper).               *)
(***************************************************************************)
\* the call has returned or raised
MapperDone == mpc = "done"

\* the snapshot is a non-empty document the inbound validator accepts
PassesInboundContract(doc) == Truthy(doc) /\ validate_game_state(doc) = "none"

\* C2: for every snapshot that passes the inbound contract, the vector that
\* process_game_state returns has exactly observation_size entries, whatever
\* the number of cards in the hand.
C2_LengthIsObservationSize ==
    (MapperDone /\ PassesInboundContract(raw_state) /\ map_result.raised = "none")
        => Len(map_result.value) = OBSERVATION_SIZE

\* C3: for a well-formed snapshot with a full hand of exactly MAX_CARDS (8)
\* cards, the vector has the width the environment declares to the policy
\* (OBSERVATION_SIZE): the segment widths sum to the configured width.
C3_FullHandWidthIsDeclaredWidth ==
    (/\ MapperDone
     /\ PassesInboundContract(raw_state)
     /\ Len(raw_state.game_state.hand.cards) = MAX_CARDS
     /\ map_result.raised = "none")
        => Len(map_result.value) = OBSERVATION_SIZE

\* C4: process_game_state(None) and process_game_state({}) return an all-zero
\* vector of observation_size entries, without raising and without running the
\* validator.
C4_EmptyGivesZeroVector ==
    (MapperDone /\ ~Truthy(raw_state))
        => /\ map_result.raised = "none"
           /\ map_result.value = Zeros(OBSERVATION_SIZE)
           /\ ~map_result.validated

C4_Witness ==
    /\ MapperDone
    /\ raw_state = EmptyDict
    /\ Len(map_result.value) = OBSERVATION_SIZE
    /\ \A i \in 1..OBSERVATION_SIZE : map_result.value[i] = 0

\* C5: when the inbound validator rejects a non-empty snapshot, process_game_state
\* does not raise: it logs the failure, extracts what it can and returns a vector.
C5_RejectedSnapshotIsStillEncoded ==
    (MapperDone /\ Truthy(raw_state) /\ validate_game_state(raw_state) # "none")
        => /\ map_result.raised = "none"
           /\ map_result.logged
           /\ Len(map_result.value) > 0

(***************************************************************************)
(* SpecAction: one call of process_action on any vector of the action      *)
(* space's width, the action-selection entry ranging beyond the compact    *)
(* index set.                                                              *)
(***************************************************************************)
ActionVectors ==
    {<<sel>> \o cards : sel \in (-1)..MaxActionIndex, cards \in [1..MAX_CARDS -> {0, 1}]}

InitAction ==
    /\ rl_action \in ActionVectors
    /\ act_result = NoActResult
    /\ apc = "call"
    /\ MapperIdle
    /\ PipeIdle
    /\ EnvIdle
    /\ RewardIdle

ProcessAction ==
    /\ apc = "call"
    /\ act_result' = process_action(rl_action)
    /\ apc' = "done"
    /\ UNCHANGED <<rl_action, mapVars, rewVars, pipeVars, envVars>>

NextAction == ProcessAction

SpecAction == InitAction /\ [][NextAction]_vars

\* C6: for every action vector, also one whose action-selection entry is outside
\* {0, 1, 2}, process_action returns (without raising) a command whose action is
\* in the native set {1, 2, 3}: 0, 1, 2 map to 1, 2, 3 and anything else to 1;
\* and every entry of params is in 1..MAX_CARDS.
C6_CommandInNativeSet ==
    apc = "done" =>
        /\ act_result.raised = "none"
        /\ act_result.value.action \in {1, 2, 3}
        /\ (rl_action[1] \in {0, 1, 2} => act_result.value.action = rl_action[1] + 1)
        /\ (rl_action[1] \notin {0, 1, 2} => act_result.value.action = 1)
        /\ \A i \in 1..Len(act_result.value.params) :
               act_result.value.params[i] \in 1..MAX_CARDS

C6_Witness ==
    /\ apc = "done"
    /\ rl_action[1] = 3
    /\ act_result.value.action = 1
    /\ act_result.value.params = <<2, 8>>

(***************************************************************************)
(* The game, the peer of the channel: it writes request lines, reads       *)
(* response lines, and may close either of its ends at any time.           *)
(***************************************************************************)
GameWrites(line) ==
    /\ game_writer
    /\ request_handle = "open"
    /\ Len(request_pipe) < MaxPipe
    /\ request_pipe' = Append(request_pipe, line)
    /\ UNCHANGED <<game_opening, request_handle, response_handle, pipe_files, response_buffer,
                   response_pipe, game_writer, game_reader>>

\* the tokens after the first newline
RECURSIVE AfterFirstLine(_)
AfterFirstLine(tokens) ==
    IF tokens = <<>> THEN <<>>
    ELSE IF Head(tokens).t = "nl" THEN Tail(tokens)
    ELSE AfterFirstLine(Tail(tokens))

GameReads ==
    /\ game_reader
    /\ Lines(response_pipe) > 0
    /\ response_pipe' = AfterFirstLine(response_pipe)
    /\ UNCHANGED <<game_opening, request_handle, response_handle, pipe_files, request_pipe,
                   response_buffer, game_writer, game_reader>>

GameClosesWriter ==
    /\ game_writer
    /\ game_writer' = FALSE
    /\ UNCHANGED <<game_opening, request_handle, response_handle, pipe_files, request_pipe,
                   response_buffer, response_pipe, game_reader>>

GameClosesReader ==
    /\ game_reader
    /\ game_reader' = FALSE
    /\ UNCHANGED <<game_opening, request_handle, response_handle, pipe_files, request_pipe,
                   response_buffer, response_pipe, game_writer>>

(***************************************************************************)
(* SpecPipe: a caller that uses BalatroPipeIO directly, calling            *)
(* wait_for_request, send_response and cleanup in any order, beside the    *)
(* game.                                                                   *)
(***************************************************************************)
PipeDoc == Snapshot(1, 0, <<1>>, "None")

PipeLines == {JsonLine(PipeDoc), JsonLine(EmptyDict), MalformedLine, BlankLine, UndecodableLine}

\* mutant: the restart command carries params that are not a list
RestartResponse_ParamsNotList == [ResponseDoc(6, <<>>) EXCEPT !.mistyped = {"params"}]

\* mutant: the command sent after a game over or a win carries another action
RestartResponse_OtherAction == ResponseDoc(7, <<>>)

\* the command step sends after a game over or a win
RestartResponse == ResponseDoc(6, <<>>)

\* a document whose params json cannot encode (a numpy array, say)
UnserializableResponse ==
    [ResponseDoc(1, <<2>>) EXCEPT !.mistyped = {"params"}, !.unserializable = {"params"}]

ResponseInputs == {RestartResponse, UnserializableResponse}

InitPipe == MapperIdle /\ ActionIdle /\ PipeIdle /\ EnvIdle /\ RewardIdle

\* the call of wait_for_request: with no handle it returns at once, otherwise
\* it blocks in readline
WaitForRequestCall ==
    /\ ppc = "idle"
    /\ \/ /\ request_handle = "None"
          /\ pipe_ret' = wait_for_request(request_handle, EndOfFile)
          /\ ppc' = "idle"
       \/ /\ request_handle = "open"
          /\ ppc' = "waiting"
          /\ UNCHANGED pipe_ret
    /\ UNCHANGED <<chanVars, mapVars, actVars, rewVars, envVars>>

\* readline returns, and wait_for_request with it
WaitForRequestReturn ==
    /\ ppc = "waiting"
    /\ CanRead
    /\ pipe_ret' = wait_for_request(request_handle, NextLine)
    /\ request_pipe' = RestOfPipe
    /\ ppc' = "idle"
    /\ UNCHANGED <<game_opening, request_handle, response_handle, pipe_files, response_buffer,
                   response_pipe, game_writer, game_reader, mapVars, actVars, rewVars, envVars>>

SendResponse(response_data) ==
    /\ ppc = "idle"
    /\ CanSend(response_data)
    /\ LET sent == send_response(response_handle, response_data, response_buffer, game_reader)
       IN  /\ Len(sent.buffer) <= 2 * MaxResidue
           /\ pipe_ret' = sent.ret
           /\ response_buffer' = sent.buffer
           /\ response_pipe' = response_pipe \o sent.flushed
    /\ UNCHANGED <<game_opening, request_handle, response_handle, pipe_files, request_pipe,
                   game_writer, game_reader, ppc, mapVars, actVars, rewVars, envVars>>

\* cleanup: cleanup_handles, then the pipe files are unlinked
Cleanup ==
    /\ ppc = "idle"
    /\ request_handle' = "None"
    /\ response_handle' = "None"
    /\ response_pipe' = ClosedResponsePipe
    /\ response_buffer' = <<>>
    /\ pipe_files' = {}
    /\ UNCHANGED game_opening
    /\ pipe_ret' = [NoPipeRet EXCEPT !.op = "cleanup"]
    /\ UNCHANGED <<request_pipe, game_writer, game_reader, ppc, mapVars, actVars, rewVars, envVars>>

GameStep ==
    \/ \E line \in PipeLines : GameWrites(line)
    \/ GameReads
    \/ GameClosesWriter
    \/ GameClosesReader

NextPipe ==
    \/ GameStep /\ UNCHANGED <<ppc, pipe_ret, mapVars, actVars, rewVars, envVars>>
    \/ WaitForRequestCall
    \/ WaitForRequestReturn
    \/ \E response_data \in ResponseInputs : SendResponse(response_data)
    \/ Cleanup

SpecPipe == InitPipe /\ [][NextPipe]_vars

(***************************************************************************)
(* Claims about the channel (checked under SpecPipe).                      *)
(***************************************************************************)
\* a step in which readline, and with it wait_for_request, returns
WaitReturnStep == ppc = "waiting" /\ ppc' = "idle"

\* a step in which wait_for_request takes a line off the request pipe
WaitConsumeStep == ppc = "waiting" /\ request_pipe # <<>> /\ request_pipe' = Tail(request_pipe)

SendStep ==
    /\ pipe_ret'.op = "send_response"
    /\ response_handle = "open"
    /\ \/ Len(response_pipe') > Len(response_pipe)
       \/ Len(response_buffer') > Len(response_buffer)

\* C10: send_response never raises; it returns True only after the document, the
\* newline and the flush have all been performed on the response handle (the
\* pipe then holds the document and its newline), and it returns False on every
\* failure: handle not open, broken pipe, unserializable document.
C10_SendResponseReportsFailure ==
    [][/\ pipe_ret'.op = "send_response" =>
             /\ pipe_ret'.raised = "none"
             /\ (pipe_ret'.logged = "Response handle not open" => ~pipe_ret'.ok)
             /\ (pipe_ret'.ok => pipe_ret'.steps = <<"dump", "newline", "flush">>)
       /\ SendStep =>
             /\ pipe_ret'.ok <=> (Serializable(pipe_ret'.arg) /\ game_reader)
             /\ pipe_ret'.ok =>
                    /\ response_pipe' = response_pipe \o response_buffer
                                            \o <<DocToken(pipe_ret'.arg), NewlineToken>>
                    /\ response_buffer' = <<>>
       /\ (response_handle = "None" /\ pipe_ret'.op = "send_response") =>
             ~pipe_ret'.ok /\ response_buffer' = response_buffer]_vars

\* a send that failed on an unserializable document, followed by one that
\* returned True after its flush
C10_Witness ==
    /\ pipe_ret.op = "send_response"
    /\ pipe_ret.ok
    /\ pipe_ret.steps = <<"dump", "newline", "flush">>
    /\ response_pipe = <<PartialToken(UnserializableResponse),
                         DocToken(RestartResponse), NewlineToken>>

(***************************************************************************)
(* Spec: the environment driven by a caller that follows the gym protocol  *)
(* (reset, then step until a step returns terminated, then reset again),   *)
(* beside the game.  A call that blocks in readline is two actions: up to  *)
(* the readline, and from its return to the end of the call.               *)
(***************************************************************************)
\* the request of a running game offers the three actions, that of a won game
\* SELECT_HAND only and that of a lost game none
EnvRequest(chips, over, win) ==
    RequestDoc(GameStateDoc(HandDoc(DealHand(2, 0)), chips, over, win,
                            CurrentHandDoc(30, 4, 120, "Pair")),
               IF over = 1 THEN <<>> ELSE IF win = 1 THEN <<1>> ELSE <<1, 2, 3>>, 0)

EnvLines ==
    {JsonLine(EnvRequest(0, 0, 0)), JsonLine(EnvRequest(300, 0, 1)),
     JsonLine(EnvRequest(120, 1, 0)),
     JsonLine(ApplyDefect(EnvRequest(0, 0, 0), "no_retry_count")),
     JsonLine(ApplyDefect(EnvRequest(120, 1, 0), "bad_handname")),
     JsonLine(EnvRequest(300, 1, 1)),
     MalformedLine}

\* a vector of the action space, and one that is too short to hold an
\* action-selection entry
EnvActions == {<<0, 1, 0, 1, 0, 0, 0, 0, 0>>, <<1, 0, 0, 0, 0, 0, 0, 0, 0>>, <<>>}

\* the last three events of the log followed by the new ones
Logged(log, events) ==
    LET all == log \o events IN
        IF Len(all) > 3 THEN SubSeq(all, Len(all) - 2, Len(all)) ELSE all

\* the event of a readline that returned what NextLine is
ReadEvent == IF request_pipe # <<>> THEN <<"R">> ELSE <<>>

WriteEvent(sent) == IF sent.ret.ok THEN <<"W">> ELSE <<>>

InitEnv == MapperIdle /\ ActionIdle /\ PipeIdle /\ EnvIdle /\ RewardIdle

Raises(call, exception) ==
    /\ epc' = "raised"
    /\ env_ret' = [NoEnvRet EXCEPT !.call = call, !.raised = exception]

\* reset, up to the readline of wait_for_request
Reset ==
    /\ epc \in {"constructed", "terminated"}
    /\ calls < MaxCalls
    /\ calls' = calls + 1
    /\ current_state' = None
    /\ prev_state' = None
    /\ game_over' = FALSE
    /\ restart_pending' = FALSE
    /\ actions_taken' = <<>>
    /\ reward_calculator' = reset_reward_calculator(reward_calculator)
    /\ IF request_handle = "None"
       THEN /\ pipe_ret' = wait_for_request(request_handle, EndOfFile)
            /\ Raises("reset", "RuntimeError")
       ELSE /\ epc' = "reset_wait"
            /\ env_ret' = [NoEnvRet EXCEPT !.call = "reset"]
            /\ UNCHANGED pipe_ret
    /\ UNCHANGED <<chanVars, ppc, action_masks, replay_file, io_log, mapVars, actVars, rewVars>>

\* mutant: no action is read from the request
available_actions_of_Nothing(request) == <<>>

\* reset and step: request.get('available_actions', [])
available_actions_of(request) == Get(request, "available_actions", <<>>)

\* reset, from the return of readline
ResetReceive ==
    /\ epc = "reset_wait"
    /\ CanRead
    /\ LET initial_request == wait_for_request(request_handle, NextLine)
           initial_observation == process_game_state(initial_request.doc)
       IN  /\ pipe_ret' = initial_request
           /\ request_pipe' = RestOfPipe
           /\ io_log' = Logged(io_log, ReadEvent)
           /\ IF ~Truthy(initial_request.doc)
              THEN /\ Raises("reset", "RuntimeError")
                   /\ UNCHANGED <<current_state, action_masks>>
              ELSE /\ current_state' = initial_request.doc
                   /\ IF initial_observation.raised # "none"
                      THEN /\ Raises("reset", initial_observation.raised)
                           /\ UNCHANGED action_masks
                      ELSE /\ action_masks' = create_action_mask(
                                   available_actions_of(initial_request.doc))
                           /\ epc' = "ready"
                           /\ env_ret' = [NoEnvRet EXCEPT
                                            !.call = "reset", !.returned = TRUE,
                                            !.observation = initial_observation.value]
    /\ UNCHANGED <<game_opening, request_handle, response_handle, pipe_files, response_buffer,
                   response_pipe, game_writer, game_reader, ppc, prev_state, game_over,
                   restart_pending, actions_taken, reward_calculator, replay_file,
                   calls, mapVars, actVars, rewVars>>

\* step, up to the readline of wait_for_request
\* mutant: the list of actions holds the last command only
record_action_LastOnly(taken, response_data) == <<response_data>>

\* step: self.actions_taken.append(response_data)
record_action(taken, response_data) == Append(taken, response_data)

Step(action) ==
    /\ epc = "ready"
    /\ calls < MaxCalls
    /\ calls' = calls + 1
    /\ prev_state' = current_state
    /\ LET response_data == process_action(action) IN
           IF response_data.raised # "none"
           THEN /\ Raises("step", response_data.raised)
                /\ UNCHANGED <<actions_taken, response_buffer, response_pipe, pipe_ret, io_log>>
           ELSE /\ CanSend(response_data.value)
                /\ actions_taken' = record_action(actions_taken, response_data.value)
                /\ LET sent == send_response(response_handle, response_data.value,
                                             response_buffer, game_reader)
                   IN  /\ pipe_ret' = sent.ret
                       /\ response_buffer' = sent.buffer
                       /\ response_pipe' = response_pipe \o sent.flushed
                       /\ io_log' = Logged(io_log, WriteEvent(sent))
                       /\ IF ~sent.ret.ok
                          THEN Raises("step", "RuntimeError")
                          ELSE /\ epc' = "step_wait"
                               /\ env_ret' = [NoEnvRet EXCEPT !.call = "step"]
    /\ UNCHANGED <<game_opening, request_handle, response_handle, pipe_files, request_pipe, game_writer,
                   game_reader, ppc, current_state, game_over, restart_pending,
                   action_masks, reward_calculator, replay_file, mapVars, actVars, rewVars>>

\* mutant: the win is tested before the game over
branch_of_step_WinFirst(game_state) ==
    IF Get(game_state, "game_win", 0) = 1 THEN "game_win"
    ELSE IF Get(game_state, "game_over", 0) = 1 THEN "game_over"
    ELSE "running"

\* step: the branch taken on the received game state, "if game_over_flag == 1"
\* before "if game_win_flag == 1"
branch_of_step(game_state) ==
    IF Get(game_state, "game_over", 0) = 1 THEN "game_over"
    ELSE IF Get(game_state, "game_win", 0) = 1 THEN "game_win"
    ELSE "running"

\* mutant: the reward is calculated a second time on the same request
reward_of_step_Twice(rc, doc, prev) ==
    LET first == calculate_reward(rc, doc, IF Truthy(prev) THEN prev ELSE EmptyDict) IN
        calculate_reward(first.rc, doc, IF Truthy(prev) THEN prev ELSE EmptyDict)

\* step: "reward = self.reward_calculator.calculate_reward(current_state=
\* self.current_state, prev_state=self.prev_state if self.prev_state else {})",
\* the same call in each of the three branches that follow a received request
reward_of_step(rc, doc, prev) ==
    calculate_reward(rc, doc, IF Truthy(prev) THEN prev ELSE EmptyDict)

\* step, from the return of readline
StepReceive ==
    /\ epc = "step_wait"
    /\ CanRead
    /\ LET next_request == wait_for_request(request_handle, NextLine)
           doc == next_request.doc
           game_state == Get(doc, "game_state", EmptyGameState)
           observation == process_game_state(IF Truthy(doc) THEN doc ELSE current_state)
           rewarded == reward_of_step(reward_calculator, doc, prev_state)
           ends == branch_of_step(game_state) # "running"
           won == branch_of_step(game_state) = "game_win"
           \* replays.json starts missing in this specification and is written by
           \* try_save_replay only: every replay in it has a score, nothing is raised
           saved == try_save_replay(replay_file, Get(game_state, "seed", ""), actions_taken,
                                    rewarded.reward, Get(game_state, "chips", 0))
           sent == send_response(response_handle, RestartResponse, response_buffer, game_reader)
           returns == [NoEnvRet EXCEPT !.call = "step", !.returned = TRUE,
                                       !.observation = observation.value]
       IN  /\ request_pipe' = RestOfPipe
           /\ IF ~Truthy(doc)
              THEN /\ game_over' = TRUE
                   /\ pipe_ret' = next_request
                   /\ io_log' = Logged(io_log, ReadEvent)
                   /\ IF observation.raised # "none"
                      THEN Raises("step", observation.raised)
                      ELSE /\ epc' = "terminated"
                           /\ env_ret' = [returns EXCEPT !.terminated = TRUE, !.timeout = TRUE]
                   /\ UNCHANGED <<current_state, reward_calculator, replay_file, action_masks,
                                  response_buffer, response_pipe>>
              ELSE /\ current_state' = doc
                   /\ UNCHANGED game_over
                   /\ IF observation.raised # "none"
                      THEN /\ Raises("step", observation.raised)
                           /\ pipe_ret' = next_request
                           /\ io_log' = Logged(io_log, ReadEvent)
                           /\ UNCHANGED <<reward_calculator, replay_file, action_masks,
                                          response_buffer, response_pipe>>
                      ELSE /\ reward_calculator' = rewarded.rc
                           /\ IF ends
                              THEN /\ CanSend(RestartResponse)
                                   /\ replay_file' = IF won THEN saved.file ELSE replay_file
                                   /\ pipe_ret' = sent.ret
                                   /\ response_buffer' = sent.buffer
                                   /\ response_pipe' = response_pipe \o sent.flushed
                                   /\ io_log' = Logged(io_log, ReadEvent \o WriteEvent(sent))
                                   /\ epc' = "terminated"
                                   /\ env_ret' = [returns EXCEPT !.terminated = TRUE,
                                                                 !.reward = rewarded.reward]
                                   /\ UNCHANGED action_masks
                              ELSE /\ action_masks' = create_action_mask(
                                           available_actions_of(doc))
                                   /\ pipe_ret' = next_request
                                   /\ io_log' = Logged(io_log, ReadEvent)
                                   /\ epc' = "ready"
                                   /\ env_ret' = [returns EXCEPT !.reward = rewarded.reward]
                                   /\ UNCHANGED <<replay_file, response_buffer, response_pipe>>
    /\ UNCHANGED <<game_opening, request_handle, response_handle, pipe_files, game_writer, game_reader,
                   ppc, prev_state, restart_pending, actions_taken, calls,
                   mapVars, actVars, rewVars>>

\* BalatroEnv.cleanup, between two calls of reset or step
EnvCleanup ==
    /\ epc \notin {"reset_wait", "step_wait"}
    /\ Cleanup

\* the game exits: both its ends are closed
GameExits ==
    /\ game_writer \/ game_reader
    /\ game_writer' = FALSE
    /\ game_reader' = FALSE
    /\ UNCHANGED <<game_opening, request_handle, response_handle, pipe_files, request_pipe,
                   response_buffer, response_pipe>>

EnvGameStep ==
    \/ \E line \in EnvLines : GameWrites(line)
    \/ GameReads
    \/ GameExits

NextEnv ==
    \/ Reset
    \/ ResetReceive
    \/ \E action \in EnvActions : Step(action)
    \/ StepReceive
    \/ EnvCleanup
    \/ EnvGameStep /\ UNCHANGED <<ppc, pipe_ret, mapVars, actVars, rewVars, envVars>>

Spec == InitEnv /\ [][NextEnv]_vars

(***************************************************************************)
(* Claims about the environment (checked under Spec).                      *)
(***************************************************************************)
\* C1: with a caller that follows the gym protocol, request reads and response
\* writes on the channel pair strictly alternate: the environment never flushes
\* two responses (the restart command included) without consuming a request in
\* between, and never consumes two request lines without flushing a response
\* in between.
C1_RequestsAndResponsesAlternate ==
    \A i \in 1..(Len(io_log) - 1) : io_log[i] # io_log[i + 1]

\* the tokens are whole documents that satisfy the outbound contract
ContractTokens(tokens) ==
    \A i \in 1..Len(tokens) :
        /\ tokens[i].t # "partial"
        /\ tokens[i].t = "doc" => validate_response(tokens[i].doc) = "none"

\* commands that violate the outbound contract
ContractViolations ==
    {[ResponseDoc(1, <<1>>) EXCEPT !.mistyped = {"action"}],
     [ResponseDoc(1, <<1>>) EXCEPT !.mistyped = {"params"}],
     Without(ResponseDoc(1, <<1>>), "params"),
     Without(ResponseDoc(1, <<1>>), "action")}

\* a step in which step raises what process_action raised
ProcessActionRaises ==
    /\ epc = "ready"
    /\ epc' = "raised"
    /\ \E action \in EnvActions : /\ process_action(action).raised # "none"
                                  /\ env_ret'.raised = process_action(action).raised

\* C7: every document the environment writes to the response channel (the
\* agent's commands and the restart command) satisfies the outbound contract;
\* a command that violates it makes process_action raise instead of returning
\* it, and when process_action raises, step writes nothing to the channel and
\* records no action.
C7_WrittenDocumentsSatisfyContract ==
    [][/\ ContractTokens(response_pipe')
       /\ ContractTokens(response_buffer')
       /\ \A i \in 1..Len(actions_taken') : validate_response(actions_taken'[i]) = "none"
       /\ \A d \in ContractViolations : validate_then_return(d).raised = "AssertionError"
       /\ ProcessActionRaises =>
             /\ response_pipe' = response_pipe
             /\ response_buffer' = response_buffer
             /\ actions_taken' = actions_taken]_vars

\* the game has read the agent's command, and the restart command that step
\* sent after the game over is in the pipe
C7_Witness ==
    /\ epc = "terminated"
    /\ env_ret.call = "step"
    /\ ~env_ret.timeout
    /\ Len(actions_taken) = 1
    /\ response_pipe = <<DocToken(RestartResponse), NewlineToken>>

\* a step in which reset or step, inside its readline, takes a malformed line
TakesMalformedLine ==
    /\ epc \in {"reset_wait", "step_wait"}
    /\ NextLine = MalformedLine
    /\ request_pipe' = Tail(request_pipe)

\* C8: a malformed line never halts the training loop: when reset or step takes
\* one, the call neither raises nor ends the episode; the line is skipped and
\* the call keeps waiting for the next well-formed request.
C8_MalformedLineIsSkipped ==
    [][TakesMalformedLine => (epc' = epc /\ env_ret' = env_ret)]_vars

(***************************************************************************)
(* SpecCleanup: BalatroPipeIO in any channel state (both handles open,     *)
(* only one open, none open; each pipe file present or not; the game       *)
(* connected or gone), with a caller that calls cleanup, wait_for_request  *)
(* and send_response in any order, beside the game.                        *)
(***************************************************************************)
HandleStates == {"open", "None"}

InitCleanup ==
    /\ request_handle \in HandleStates
    /\ response_handle \in HandleStates
    /\ pipe_files \in SUBSET {"request", "response"}
    /\ game_opening = <<>>
    /\ request_pipe \in {<<>>, <<JsonLine(PipeDoc)>>}
    /\ response_buffer \in {<<>>, <<DocToken(RestartResponse), NewlineToken>>}
    /\ response_handle = "None" => response_buffer = <<>>
    /\ response_pipe = <<>>
    /\ game_writer \in BOOLEAN
    /\ game_reader \in BOOLEAN
    /\ ppc = "idle"
    /\ pipe_ret = NoPipeRet
    /\ MapperIdle
    /\ ActionIdle
    /\ EnvIdle
    /\ RewardIdle

CleanupGameStep ==
    \/ GameWrites(JsonLine(PipeDoc))
    \/ GameReads
    \/ GameExits

NextCleanup ==
    \/ Cleanup
    \/ WaitForRequestCall
    \/ WaitForRequestReturn
    \/ \E response_data \in ResponseInputs : SendResponse(response_data)
    \/ CleanupGameStep /\ UNCHANGED <<ppc, pipe_ret, mapVars, actVars, rewVars, envVars>>

SpecCleanup == InitCleanup /\ [][NextCleanup]_vars

\* both handles are released and both pipe files are gone
Released == request_handle = "None" /\ response_handle = "None" /\ pipe_files = {}

OpenOrders == {<<"request", "response">>, <<"response", "request">>}

\* the game has opened the pipe or is inside its open of it
GameAt(pipe) ==
    \/ pipe = "request" /\ game_writer
    \/ pipe = "response" /\ game_reader
    \/ game_opening # <<>> /\ Head(game_opening) = pipe

\* this side has opened the pipe or is inside its open of it
SelfAt(pipe) ==
    \/ pipe = "request" /\ (request_handle = "open" \/ ppc = "open_request")
    \/ pipe = "response" /\ (response_handle = "open" \/ ppc = "open_response")

InitOpen ==
    /\ request_handle = "None"
    /\ response_handle = "None"
    /\ pipe_files = {"request", "response"}
    /\ game_opening \in OpenOrders
    /\ request_pipe = <<>>
    /\ response_buffer = <<>>
    /\ response_pipe = <<>>
    /\ game_writer = FALSE
    /\ game_reader = FALSE
    /\ ppc = "open_request"
    /\ pipe_ret = NoPipeRet
    /\ MapperIdle
    /\ ActionIdle
    /\ EnvIdle
    /\ RewardIdle

\* self.request_handle = open(self.request_pipe, 'r')
OpenRequestHandle ==
    /\ ppc = "open_request"
    /\ GameAt("request")
    /\ request_handle' = "open"
    /\ ppc' = "open_response"
    /\ UNCHANGED <<game_opening, response_handle, pipe_files, request_pipe, response_buffer,
                   response_pipe, game_writer, game_reader, pipe_ret,
                   mapVars, actVars, rewVars, envVars>>

\* self.response_handle = open(self.response_pipe, 'w')
OpenResponseHandle ==
    /\ ppc = "open_response"
    /\ GameAt("response")
    /\ response_handle' = "open"
    /\ ppc' = "idle"
    /\ UNCHANGED <<game_opening, request_handle, pipe_files, request_pipe, response_buffer,
                   response_pipe, game_writer, game_reader, pipe_ret,
                   mapVars, actVars, rewVars, envVars>>

\* the game's open of the next of its ends returns
GameOpens ==
    /\ game_opening # <<>>
    /\ SelfAt(Head(game_opening))
    /\ game_opening' = Tail(game_opening)
    /\ game_writer' = (game_writer \/ Head(game_opening) = "request")
    /\ game_reader' = (game_reader \/ Head(game_opening) = "response")
    /\ UNCHANGED <<request_handle, response_handle, pipe_files, request_pipe,
                   response_buffer, response_pipe>>

OpenGameStep ==
    \/ GameOpens
    \/ GameWrites(JsonLine(PipeDoc))
    \/ GameReads

NextOpen ==
    \/ OpenRequestHandle
    \/ OpenResponseHandle
    \/ WaitForRequestCall
    \/ WaitForRequestReturn
    \/ \E response_data \in ResponseInputs : SendResponse(response_data)
    \/ OpenGameStep /\ UNCHANGED <<ppc, pipe_ret, mapVars, actVars, rewVars, envVars>>

\* an open that can return does return
SpecOpen ==
    /\ InitOpen
    /\ [][NextOpen]_vars
    /\ WF_vars(OpenRequestHandle)
    /\ WF_vars(OpenResponseHandle)
    /\ WF_vars(GameOpens /\ UNCHANGED <<ppc, pipe_ret, mapVars, actVars, rewVars, envVars>>)

BothChannelsOpen ==
    /\ request_handle = "open"
    /\ response_handle = "open"
    /\ game_writer
    /\ game_reader

\* C12: opening the channel does not deadlock: whichever of its ends the game
\* opens first, and in every interleaving, a state is reached where both
\* channels are open on both sides.
C12_OpenDoesNotDeadlock == <>BothChannelsOpen

(***************************************************************************)
(* SpecReward: a BalatroRewardCalculator whose caller calls                *)
(* calculate_reward, on any of the states, and reset in any order; a       *)
(* second calculator, constructed anew at each reset, is fed the same      *)
(* states.                                                                 *)
(***************************************************************************)
RewardChips == {0, 60, 160, 240, 250}

\* retry_count where the request contract puts it, beside game_state
WithTopRetry(doc, n) == [doc EXCEPT !.retry_count = n]

\* retry_count inside game_state
WithInnerRetry(doc, n) ==
    [doc EXCEPT !.game_state.keys = @ \cup {"retry_count"}, !.game_state.retry_count = n]

RewardStates ==
    {EnvRequest(chips, 0, 0) : chips \in RewardChips}
    \cup {EnvRequest(160, 0, 1), EnvRequest(250, 0, 1), EnvRequest(250, 1, 1),
          EnvRequest(60, 1, 0),
          WithTopRetry(EnvRequest(0, 0, 0), 2), WithInnerRetry(EnvRequest(0, 0, 0), 2),
          [EnvRequest(250, 0, 0) EXCEPT !.game_state.blind_chips = 0]}

\* the breakdown lists a component of that name
HasPart(breakdown, part) == \E i \in 1..Len(breakdown) : breakdown[i].part = part

InitReward == MapperIdle /\ ActionIdle /\ PipeIdle /\ EnvIdle /\ RewardIdle

restOfEnv == <<epc, current_state, prev_state, game_over, restart_pending, actions_taken,
               action_masks, replay_file, env_ret, io_log, calls>>

CalculateReward(state) ==
    /\ reward_ret.fed < MaxRewardCalls
    /\ LET tested == calculate_reward(reward_calculator, state, EmptyDict)
           fresh == calculate_reward(fresh_calculator, state, EmptyDict)
       IN  /\ reward_calculator' = tested.rc
           /\ fresh_calculator' = fresh.rc
           /\ reward_ret' =
                  [op |-> "calculate_reward", state |-> state,
                   reward |-> tested.reward, breakdown |-> tested.breakdown,
                   fresh_reward |-> fresh.reward,
                   bonuses |-> reward_ret.bonuses
                               + (IF HasPart(tested.breakdown, "BLIND DEFEATED") THEN 1 ELSE 0),
                   penalties |-> reward_ret.penalties
                                 + (IF HasPart(tested.breakdown, "Game over") THEN 1 ELSE 0),
                   fed |-> reward_ret.fed + 1]
    /\ UNCHANGED <<replay_ret, instances, entry_point, restOfEnv, mapVars, actVars, pipeVars>>

ResetCalculator ==
    /\ reward_ret.fed < MaxRewardCalls
    /\ reward_calculator' = reset_reward_calculator(reward_calculator)
    /\ fresh_calculator' = NewRewardCalculator
    /\ reward_ret' = [NoRewardRet EXCEPT !.op = "reset", !.fed = reward_ret.fed + 1]
    /\ UNCHANGED <<replay_ret, instances, entry_point, restOfEnv, mapVars, actVars, pipeVars>>

NextReward ==
    \/ \E state \in RewardStates : CalculateReward(state)
    \/ ResetCalculator

SpecReward == InitReward /\ [][NextReward]_vars

\* a step of SpecReward that is a call of calculate_reward
CalculateRewardCall ==
    reward_ret'.fed = reward_ret.fed + 1 /\ reward_ret'.op = "calculate_reward"

\* the inner game state of a fed state
InnerOf(state) == Get(state, "game_state", EmptyGameState)

\* the blind-defeated condition of a state: game_win set and game_over 0
BlindDefeatedIn(state) ==
    Get(InnerOf(state), "game_win", 0) # 0 /\ Get(InnerOf(state), "game_over", 0) = 0

\* the value of the component of that name in the breakdown, 0 when absent
PartValue(breakdown, part) ==
    IF HasPart(breakdown, part)
    THEN (CHOOSE e \in {breakdown[i] : i \in 1..Len(breakdown)} : e.part = part).value
    ELSE 0

RECURSIVE SumOfParts(_)
SumOfParts(breakdown) ==
    IF breakdown = <<>> THEN 0 ELSE Head(breakdown).value + SumOfParts(Tail(breakdown))

\* C13: the blind completion bonus of +50 is part of the reward of a step
\* exactly when the state has game_win set with game_over 0 and no earlier
\* step of the episode received the bonus, so at most once per episode; the
\* reward is the sum of its components.
C13_BonusOncePerEpisode ==
    /\ [](reward_ret.bonuses <= 1)
    /\ [](reward_ret.reward = SumOfParts(reward_ret.breakdown))
    /\ [][CalculateRewardCall =>
            /\ HasPart(reward_ret'.breakdown, "BLIND DEFEATED")
                   <=> (BlindDefeatedIn(reward_ret'.state) /\ reward_ret.bonuses = 0)
            /\ HasPart(reward_ret'.breakdown, "BLIND DEFEATED")
                   => PartValue(reward_ret'.breakdown, "BLIND DEFEATED") = 500]_vars

\* the blind is reported defeated a second time in an episode, with more
\* chips, and the step receives no bonus
C13_Witness ==
    /\ reward_ret.op = "calculate_reward"
    /\ reward_ret.state = EnvRequest(250, 0, 1)
    /\ reward_ret.bonuses = 1
    /\ ~HasPart(reward_ret.breakdown, "BLIND DEFEATED")
    /\ reward_calculator.winning_chips = 160

\* the chips of the state processed before, 0 at the start of an episode
PreviouslyProcessedChips ==
    IF reward_ret.op = "calculate_reward"
    THEN Get(InnerOf(reward_ret.state), "chips", 0) ELSE 0

\* the tier of a gain of g chips against a requirement of B chips, by 100*g/B
TierReward(g, B) ==
    IF 100 * g >= 80 * B THEN 100
    ELSE IF 100 * g >= 50 * B THEN 40
    ELSE IF 100 * g >= 25 * B THEN 10
    ELSE 5

\* the tier rewards in a breakdown
TierParts(breakdown) == {i \in 1..Len(breakdown) : breakdown[i].part = "hand"}

\* C14: a step whose state has g > 0 more chips than the state processed
\* before, with game_over 0, the bonus not yet received in the episode and a
\* blind requirement B > 0, receives exactly one tier reward, chosen by
\* 100*g/B (0 -> 250 against 300 gives +10.0); every other step, one with
\* unchanged chips or one after the bonus included, receives none.
C14_TierRewardOncePerGain ==
    [][CalculateRewardCall =>
          LET inner == InnerOf(reward_ret'.state)
              g == Get(inner, "chips", 0) - PreviouslyProcessedChips
              B == Get(inner, "blind_chips", 300)
              due == /\ g > 0
                     /\ Get(inner, "game_over", 0) = 0
                     /\ reward_ret.bonuses = 0
                     /\ B > 0
          IN  /\ due => /\ Cardinality(TierParts(reward_ret'.breakdown)) = 1
                        /\ PartValue(reward_ret'.breakdown, "hand") = TierReward(g, B)
              /\ ~due => TierParts(reward_ret'.breakdown) = {}
              /\ (/\ reward_ret'.state = EnvRequest(250, 0, 0)
                  /\ PreviouslyProcessedChips = 0
                  /\ reward_ret.bonuses = 0) => reward_ret'.reward = 100]_vars

\* chips rose from 0 to 250 against 300 in one step, which received +10.0,
\* and the following step, with the chips unchanged, received no tier reward
C14_Witness ==
    /\ reward_ret.op = "calculate_reward"
    /\ reward_ret.fed = 2
    /\ reward_ret.state = EnvRequest(250, 0, 0)
    /\ reward_ret.breakdown = <<>>
    /\ reward_calculator.hands_played
           = <<[chips |-> 250, hand_type |-> "Pair", total_chips |-> 250]>>
    /\ reward_calculator.episode_total_reward = 100

\* C15: the game over penalty of -20.0 is part of the reward of a step only
\* if the state has game_over = 1, no earlier step of the episode received
\* the penalty and no earlier step of the episode received the bonus; so it
\* is added at most once per episode.
C15_PenaltyOnceAndOnlyOnLoss ==
    /\ [](reward_ret.penalties <= 1)
    /\ [][CalculateRewardCall =>
            /\ HasPart(reward_ret'.breakdown, "Game over")
                   <=> /\ Get(InnerOf(reward_ret'.state), "game_over", 0) = 1
                       /\ reward_ret.penalties = 0
                       /\ reward_ret.bonuses = 0
            /\ HasPart(reward_ret'.breakdown, "Game over")
                   => PartValue(reward_ret'.breakdown, "Game over") = -200]_vars

\* a state with game_over = 1 after the bonus was received: no penalty
C15_Witness ==
    /\ reward_ret.op = "calculate_reward"
    /\ reward_ret.state = EnvRequest(60, 1, 0)
    /\ reward_ret.bonuses = 1
    /\ reward_ret.penalties = 0
    /\ reward_ret.reward = 0

\* C16: the reward of a step whose request carries retry_count = n > 0
\* beside game_state includes a retry penalty of -0.1*n, and none for n = 0.
C16_RetryPenaltyFromRequest ==
    reward_ret.op = "calculate_reward" =>
        LET n == Get(reward_ret.state, "retry_count", 0)
        IN  /\ n > 0 => /\ HasPart(reward_ret.breakdown, "retry_penalty")
                        /\ PartValue(reward_ret.breakdown, "retry_penalty") = (-1) * n
            /\ n = 0 => ~HasPart(reward_ret.breakdown, "retry_penalty")

\* a step of Spec that is a call of BalatroEnv.reset
EnvResetCall == calls' = calls + 1 /\ env_ret'.call = "reset"

\* a step that clears one of the two flags of the calculator
ClearsAFlag ==
    \/ reward_calculator.blind_already_defeated /\ ~reward_calculator'.blind_already_defeated
    \/ reward_calculator.game_over_penalty_applied
           /\ ~reward_calculator'.game_over_penalty_applied

\* calculate_reward on the calculator rc leaves a flag that is set as it is
KeepsFlags(rc, state) ==
    LET after == calculate_reward(rc, state, EmptyDict).rc
    IN  /\ rc.blind_already_defeated => after.blind_already_defeated
        /\ rc.game_over_penalty_applied => after.game_over_penalty_applied

\* C17: blind_already_defeated and game_over_penalty_applied are cleared only
\* in a call of BalatroEnv.reset, which calls the reset of the calculator
\* once (episode_count counts these calls) and leaves both flags cleared; no
\* other step of the environment calls it; and calculate_reward, on any
\* state, leaves a flag that is set as it is.
C17_FlagsClearedOnlyByReset ==
    /\ [][/\ ClearsAFlag => EnvResetCall
          /\ EnvResetCall =>
                 /\ reward_calculator'.episode_count = reward_calculator.episode_count + 1
                 /\ ~reward_calculator'.blind_already_defeated
                 /\ ~reward_calculator'.game_over_penalty_applied
          /\ ~EnvResetCall =>
                 reward_calculator'.episode_count = reward_calculator.episode_count]_vars
    /\ [](\A state \in RewardStates : KeepsFlags(reward_calculator, state))

\* the second reset found the blind defeated in the episode before, and
\* cleared the flag
C17_Witness ==
    /\ env_ret.call = "reset"
    /\ reward_calculator.episode_count = 2
    /\ reward_calculator.wins = 1
    /\ ~reward_calculator.blind_already_defeated

\* C18: after reset, the calculator returns for every state fed to it the
\* reward a calculator constructed at that moment returns for the same
\* states, whatever the episodes before.
C18_ResetIsComplete == reward_ret.reward = reward_ret.fresh_reward

\* the blind is defeated in a second episode, after it was defeated in the
\* first, and the bonus is received again
C18_Witness ==
    /\ reward_ret.op = "calculate_reward"
    /\ reward_calculator.episode_count = 1
    /\ reward_calculator.wins = 1
    /\ HasPart(reward_ret.breakdown, "BLIND DEFEATED")
    /\ reward_ret.reward = reward_ret.fresh_reward

(***************************************************************************)
(* SpecReplay: a ReplaySystem whose caller calls try_save_replay with      *)
(* pairwise distinct scores, on a file of any prior content.               *)
(***************************************************************************)
ReplayScores == 1..MaxScore

\* a replay of that score as try_save_replay builds it
ReplayOf(score) ==
    [seed |-> "SEED", timestamp |-> "now", chips |-> 300, score |-> score, actions |-> <<>>]

\* a replay without the key 'score'
Unscored == [seed |-> "SEED", timestamp |-> "now", chips |-> 300, actions |-> <<>>]

\* the prior contents of replays.json: no file, not JSON, an object without
\* "replay", an empty array, the single replay format, MAX_REPLAYS replays
\* in ascending order, MAX_REPLAYS + 1 replays, and an array of one object
\* without 'score'
ReplayFiles ==
    {NoReplayFile,
     [kind |-> "undecodable", replays |-> <<>>],
     [kind |-> "other", replays |-> <<>>],
     [kind |-> "list", replays |-> <<>>],
     [kind |-> "single", replays |-> <<ReplayOf(5)>>],
     [kind |-> "list", replays |-> [i \in 1..MAX_REPLAYS |-> ReplayOf(i + 1)]],
     [kind |-> "list", replays |-> [i \in 1..(MAX_REPLAYS + 1) |-> ReplayOf(MAX_REPLAYS + 2 - i)]],
     [kind |-> "list", replays |-> <<Unscored>>]}

InitReplay ==
    /\ MapperIdle /\ ActionIdle /\ PipeIdle
    /\ epc = "constructed"
    /\ current_state = None
    /\ prev_state = None
    /\ game_over = FALSE
    /\ restart_pending = FALSE
    /\ actions_taken = <<>>
    /\ action_masks = <<>>
    /\ reward_calculator = NewRewardCalculator
    /\ env_ret = NoEnvRet
    /\ io_log = <<>>
    /\ calls = 0
    /\ fresh_calculator = NewRewardCalculator
    /\ reward_ret = NoRewardRet
    /\ replay_file \in ReplayFiles
    /\ replay_ret = [NoReplayRet EXCEPT !.from_empty = (load_replays(replay_file) = <<>>)]
    /\ instances = NoInstances
    /\ entry_point = NoEntryPoint

TrySaveReplay(score) ==
    /\ replay_ret.saves < MaxSaves
    /\ score \notin replay_ret.offered
    /\ LET saved == try_save_replay(replay_file, "SEED", <<>>, score, 300)
       IN  /\ replay_file' = saved.file
           /\ replay_ret' = [replay_ret EXCEPT
                               !.op = "try_save_replay", !.score = score,
                               !.count = saved.count, !.raised = saved.raised,
                               !.saves = @ + 1,
                               !.offered = @ \cup {score},
                               !.submitted = InsertScore(@, score)]
    /\ UNCHANGED <<epc, current_state, prev_state, game_over, restart_pending, actions_taken,
                   action_masks, reward_calculator, env_ret, io_log, calls,
                   fresh_calculator, reward_ret, instances, entry_point, mapVars, actVars,
                   pipeVars>>

NextReplay == \E score \in ReplayScores : TrySaveReplay(score)

SpecReplay == InitReplay /\ [][NextReplay]_vars

\* a step of SpecReplay that is a call of try_save_replay
TrySaveReplayCall == replay_ret'.saves = replay_ret.saves + 1

\* the replays of a list
ReplaysIn(replays) == {replays[i] : i \in 1..Len(replays)}

\* the list is in descending order of score
SortedDescending(replays) ==
    /\ \A i \in 1..Len(replays) : HasScore(replays[i])
    /\ \A i, j \in 1..Len(replays) : i < j => replays[i].score >= replays[j].score

\* C19: from a file that holds no replay, with pairwise distinct scores, each
\* of the first MAX_REPLAYS calls of try_save_replay adds its replay, and a
\* later call, the (MAX_REPLAYS + 1)-th first, replaces the replay of the
\* lowest score by its own if its score is higher and leaves the file as it
\* is otherwise; the file is in descending order of score after every call,
\* with exactly MAX_REPLAYS replays from the MAX_REPLAYS-th call on.
C19_KeepsTheBestReplays ==
    [][(replay_ret.from_empty /\ TrySaveReplayCall) =>
          LET before == load_replays(replay_file)
              after == load_replays(replay_file')
              new == ReplayOf(replay_ret'.score)
          IN  /\ replay_file'.kind = "list"
              /\ SortedDescending(after)
              /\ replay_ret'.count = Len(after)
              /\ IF replay_ret.saves < MAX_REPLAYS
                 THEN /\ Len(after) = replay_ret.saves + 1
                      /\ ReplaysIn(after) = ReplaysIn(before) \cup {new}
                 ELSE /\ Len(after) = MAX_REPLAYS
                      /\ IF new.score > before[MAX_REPLAYS].score
                         THEN ReplaysIn(after)
                                  = (ReplaysIn(before) \ {before[MAX_REPLAYS]}) \cup {new}
                         ELSE after = before]_vars

\* the (MAX_REPLAYS + 1)-th call on a file that started empty replaced the
\* replay of the lowest score
C19_Witness ==
    /\ replay_ret.from_empty
    /\ replay_ret.saves = MAX_REPLAYS + 1
    /\ Cardinality(replay_ret.offered) = MAX_REPLAYS + 1
    /\ Len(replay_file.replays) = MAX_REPLAYS
    /\ ReplayOf(replay_ret.score) \in ReplaysIn(replay_file.replays)
    /\ SortedDescending(replay_file.replays)

\* C20: after any call of try_save_replay, whatever the file held before,
\* the file holds at most MAX_REPLAYS replays in descending order of score.
C20_FileIsRankedAndBounded ==
    replay_ret.op = "try_save_replay" =>
        /\ Len(load_replays(replay_file)) <= MAX_REPLAYS
        /\ SortedDescending(load_replays(replay_file))

\* the lowest score among the replays of a non-empty list
LowestScore(replays) ==
    CHOOSE low \in {replays[i].score : i \in 1..Len(replays)} :
        \A i \in 1..Len(replays) : replays[i].score >= low

\* C21: when the file holds MAX_REPLAYS replays and the score of the call is
\* lower than or equal to the lowest score stored, try_save_replay leaves
\* the file as it is and returns the number of replays stored.
C21_LowScoreLeavesFileUnchanged ==
    [][(/\ TrySaveReplayCall
        /\ Len(load_replays(replay_file)) = MAX_REPLAYS
        /\ replay_ret'.score <= LowestScore(load_replays(replay_file)))
       => (replay_file' = replay_file /\ replay_ret'.count = MAX_REPLAYS)]_vars

\* a call with the score of the lowest of MAX_REPLAYS replays stored (a tie)
\* has left the file, which was not in order, as it was
C21_Witness ==
    /\ replay_ret.op = "try_save_replay"
    /\ replay_ret.saves = 1
    /\ replay_ret.score = 2
    /\ replay_file = [kind |-> "list", replays |-> [i \in 1..MAX_REPLAYS |-> ReplayOf(i + 1)]]

\* the file does not hold a list of replays with scores
NotALeaderboard(file) ==
    \/ file.kind \in {"missing", "undecodable", "other", "single"}
    \/ file.kind = "list" /\ \E i \in 1..Len(file.replays) : ~HasScore(file.replays[i])

\* C22: a call of try_save_replay on a file that is missing, is not JSON or
\* does not hold a list of replays with scores raises nothing and leaves
\* the file holding the new replay alone.
C22_StoredLeaderboardNeverRaises ==
    [][(TrySaveReplayCall /\ NotALeaderboard(replay_file))
       => /\ replay_ret'.raised = "none"
          /\ replay_file' = [kind |-> "list", replays |-> <<ReplayOf(replay_ret'.score)>>]]_vars

(***************************************************************************)
(* SpecInstances: BalatroEnv instances constructed side by side on one     *)
(* file system, each with its BalatroPipeIO(), then cleaned up.            *)
(***************************************************************************)
Envs == 1..MaxEnvs

InitInstances == MapperIdle /\ ActionIdle /\ PipeIdle /\ EnvIdle /\ RewardIdle

\* the other variables of the module stay as they are
InstancesOnly ==
    UNCHANGED <<fresh_calculator, reward_ret, replay_ret, entry_point, mapVars, actVars,
                pipeVars, envVars>>

\* BalatroEnv.__init__ up to BalatroPipeIO.__init__ before create_pipes
Construct(i) ==
    /\ instances.envs[i].pc = "absent"
    /\ instances' = [instances EXCEPT
                       !.envs[i].pc = "create_request",
                       !.envs[i].request_pipe = DefaultPipes.request_pipe,
                       !.envs[i].response_pipe = DefaultPipes.response_pipe]
    /\ InstancesOnly

\* one round of the loop of create_pipes: the file at the path, if any, is
\* unlinked and a new pipe file is made there
CreatePipe(i) ==
    /\ instances.envs[i].pc \in {"create_request", "create_response"}
    /\ LET env == instances.envs[i]
           pipe_path == IF env.pc = "create_request" THEN env.request_pipe
                        ELSE env.response_pipe
       IN  instances' = [instances EXCEPT
                           !.files[pipe_path] = instances.made + 1,
                           !.made = @ + 1,
                           !.envs[i].pc = IF env.pc = "create_request"
                                          THEN "create_response" ELSE "open_request"]
    /\ InstancesOnly

\* one open of open_persistent_handles, the game opening the other end: the
\* handle is on the file that is at the path now; with no file there the
\* open raises, cleanup_handles runs and RuntimeError leaves the constructor
OpenHandle(i) ==
    /\ instances.envs[i].pc \in {"open_request", "open_response"}
    /\ LET env == instances.envs[i]
           pipe_path == IF env.pc = "open_request" THEN env.request_pipe
                        ELSE env.response_pipe
           file == instances.files[pipe_path]
       IN  instances' =
               IF file = 0
               THEN [instances EXCEPT !.envs[i].pc = "failed",
                                      !.envs[i].request_handle = 0,
                                      !.envs[i].response_handle = 0]
               ELSE IF env.pc = "open_request"
               THEN [instances EXCEPT !.envs[i].pc = "open_response",
                                      !.envs[i].request_handle = file]
               ELSE [instances EXCEPT !.envs[i].pc = "constructed",
                                      !.envs[i].response_handle = file]
    /\ InstancesOnly

\* BalatroEnv.cleanup: the handles are closed and the files at both paths
\* are unlinked
CleanupInstance(i) ==
    /\ instances.envs[i].pc = "constructed"
    /\ LET env == instances.envs[i]
       IN  instances' = [instances EXCEPT
                           !.files = [path \in PipePaths |->
                                         IF path \in {env.request_pipe, env.response_pipe}
                                         THEN 0 ELSE @[path]],
                           !.envs[i].pc = "cleaned",
                           !.envs[i].request_handle = 0,
                           !.envs[i].response_handle = 0]
    /\ InstancesOnly

NextInstances ==
    \E i \in Envs :
        \/ Construct(i)
        \/ CreatePipe(i)
        \/ OpenHandle(i)
        \/ CleanupInstance(i)

SpecInstances == InitInstances /\ [][NextInstances]_vars

\* the paths of an instance that has been constructed and not cleaned up
PathsOf(i) ==
    IF instances.envs[i].pc \in {"absent", "cleaned", "failed"} THEN {}
    ELSE {instances.envs[i].request_pipe, instances.envs[i].response_pipe}

\* instance i holds the file at the path open
HoldsOpen(i, path) ==
    \/ path = instances.envs[i].request_pipe /\ instances.envs[i].request_handle # 0
         /\ instances.files[path] = instances.envs[i].request_handle
    \/ path = instances.envs[i].response_pipe /\ instances.envs[i].response_handle # 0
         /\ instances.files[path] = instances.envs[i].response_handle

\* a step of the constructor of instance j
ConstructorStep(j) ==
    /\ instances.envs[j].pc \in
           {"absent", "create_request", "create_response", "open_request", "open_response"}
    /\ instances'.envs[j] # instances.envs[j]

\* C23: two instances never have a pipe path in common, and no step of the
\* constructor of one changes the file at a path where the other holds a
\* pipe file open.
C23_InstancesHaveTheirOwnPipes ==
    /\ [](\A i, j \in Envs : i # j => PathsOf(i) \cap PathsOf(j) = {})
    /\ [][\A i, j \in Envs : \A path \in PipePaths :
              (i # j /\ HoldsOpen(i, path) /\ ConstructorStep(j))
                  => instances'.files[path] = instances.files[path]]_vars

(***************************************************************************)
(* SpecExit: train_agent (train_balatro.py) and test_manual_actions        *)
(* (test_env.py) from the return of BalatroEnv(), to their exit.  The body *)
(* of the script drives the environment as Spec does; it ends by itself,   *)
(* by KeyboardInterrupt or by another exception.                           *)
(***************************************************************************)
Scripts == {"train_agent", "test_manual_actions"}

InitExit ==
    /\ MapperIdle /\ ActionIdle /\ PipeIdle /\ EnvIdle
    /\ fresh_calculator = NewRewardCalculator
    /\ reward_ret = NoRewardRet
    /\ replay_ret = NoReplayRet
    /\ instances = NoInstances
    /\ \E script \in Scripts :
           entry_point = [script |-> script,
                          pc |-> IF script = "train_agent" THEN "wrap" ELSE "body",
                          env_bound |-> script = "test_manual_actions",
                          raised |-> "none"]

\* the step changes entry_point only
EntryPointOnly ==
    UNCHANGED <<fresh_calculator, reward_ret, replay_ret, instances, mapVars, actVars,
                pipeVars, envVars>>

\* create_environment: Monitor(env, ...) returns and train_agent assigns env
WrapReturns ==
    /\ entry_point.pc = "wrap"
    /\ entry_point' = [entry_point EXCEPT !.pc = "body", !.env_bound = TRUE]
    /\ EntryPointOnly

\* create_environment: Monitor(env, ...) is left by an exception; env of
\* train_agent is not assigned
WrapRaises(exception) ==
    /\ entry_point.pc = "wrap"
    /\ entry_point' = [entry_point EXCEPT !.pc = exception]
    /\ EntryPointOnly

\* the body calls reset and step, beside the game
BodyStep ==
    /\ entry_point.pc = "body"
    /\ \/ Reset
       \/ ResetReceive
       \/ \E action \in EnvActions : Step(action)
       \/ StepReceive
       \/ EnvGameStep /\ UNCHANGED <<ppc, pipe_ret, mapVars, actVars, rewVars, envVars>>
    /\ calls' <= MaxExitCalls

\* the body ends by itself, no call of the environment being under way
BodyCompletes ==
    /\ entry_point.pc = "body"
    /\ epc \in {"constructed", "ready", "terminated"}
    /\ entry_point' = [entry_point EXCEPT !.pc = "completed"]
    /\ EntryPointOnly

\* an exception leaves the body: the one that left reset or step, or one of
\* the library before the first call
BodyRaises ==
    /\ entry_point.pc = "body"
    /\ epc \in {"constructed", "raised"}
    /\ entry_point' = [entry_point EXCEPT !.pc = "Exception"]
    /\ EntryPointOnly

\* KeyboardInterrupt leaves the body, at any place
BodyInterrupted ==
    /\ entry_point.pc = "body"
    /\ entry_point' = [entry_point EXCEPT !.pc = "KeyboardInterrupt"]
    /\ EntryPointOnly

\* train_agent, after the body and in both handlers: env.cleanup()
TrainCleanup ==
    /\ entry_point.script = "train_agent"
    /\ entry_point.pc \in {"completed", "KeyboardInterrupt", "Exception"}
    /\ entry_point.env_bound
    /\ pipe_ret.op # "cleanup"
    /\ Cleanup

\* train_agent returns, or raises again, after env.cleanup()
TrainExits ==
    /\ entry_point.script = "train_agent"
    /\ entry_point.pc \in {"completed", "KeyboardInterrupt", "Exception"}
    /\ pipe_ret.op = "cleanup"
    /\ entry_point' = [entry_point EXCEPT
                         !.pc = "exited",
                         !.raised = IF entry_point.pc = "Exception" THEN "Exception" ELSE "none"]
    /\ EntryPointOnly

\* a handler of train_agent reads env, which is not assigned
TrainHandlerFails ==
    /\ entry_point.script = "train_agent"
    /\ entry_point.pc \in {"KeyboardInterrupt", "Exception"}
    /\ ~entry_point.env_bound
    /\ entry_point' = [entry_point EXCEPT !.pc = "exited", !.raised = "UnboundLocalError"]
    /\ EntryPointOnly

\* test_manual_actions: the finally clause calls env.close(), which BalatroEnv
\* does not define, and the function is left
TestFinally ==
    /\ entry_point.script = "test_manual_actions"
    /\ entry_point.pc \in {"completed", "KeyboardInterrupt", "Exception"}
    /\ entry_point' = [entry_point EXCEPT
                         !.pc = "exited",
                         !.raised = IF entry_point.pc = "KeyboardInterrupt"
                                    THEN "KeyboardInterrupt" ELSE "none"]
    /\ EntryPointOnly

NextExit ==
    \/ WrapReturns
    \/ \E exception \in {"KeyboardInterrupt", "Exception"} : WrapRaises(exception)
    \/ BodyStep
    \/ BodyCompletes
    \/ BodyRaises
    \/ BodyInterrupted
    \/ TrainCleanup
    \/ TrainExits
    \/ TrainHandlerFails
    \/ TestFinally

SpecExit == InitExit /\ [][NextExit]_vars

\* C24: when train_agent or test_manual_actions has been left, on any path,
\* BalatroPipeIO.cleanup has run: both handles are closed and both pipe
\* files are removed.
C24_CleanupOnEveryExit == entry_point.pc = "exited" => Released


(***************************************************************************)
(* Claims about the layout of the observation (checked under SpecMapper).  *)
(***************************************************************************)
\* the features that come before the hand part: round, blind_chips, chips,
\* the state one-hot, game_over and retry_count
WidthBeforeHand == Len(extract_round_features(EmptyRound)) + STATE_CLASSES + 4

\* the features that come after it: chips, mult, score, the hand-type
\* one-hot and the available-action segment
WidthAfterHand == Len(hand_types) + MAX_ACTIONS + 3

HandPart(value) == SubSeq(value, WidthBeforeHand + 1, Len(value) - WidthAfterHand)

\* the i-th card slot of a hand part
CardSlot(part, i) ==
    SubSeq(part, NON_CARDS_FEATURES + (i - 1) * features_per_card + 1,
                 NON_CARDS_FEATURES + i * features_per_card)

HandOf(doc) == Get(Get(doc, "game_state", EmptyGameState), "hand", EmptyHand)

CardsOf(doc) == Get(HandOf(doc), "cards", <<>>)

\* C25: the hand part of the observation has the fixed width 2 + 8 * 21 for
\* every hand size: the cards are encoded in hand order, the slots of missing
\* cards are zero-filled and the cards beyond the eighth are dropped.
C25_HandPartHasFixedWidth ==
    (MapperDone /\ Truthy(raw_state) /\ map_result.raised = "none")
        => LET part == HandPart(map_result.value)
               cards == CardsOf(raw_state)
           IN  /\ Len(part) = NON_CARDS_FEATURES + max_cards * features_per_card
               /\ \A i \in 1..max_cards :
                      CardSlot(part, i) = IF i <= Len(cards) THEN card_features(cards[i])
                                          ELSE Zeros(features_per_card)

\* the index the suit and the rank of a card are announced to set
ClaimedSuitIndex(card) ==
    LET suit == Get(card, "suit", NoValue) IN
        CASE suit = "Hearts" -> 0 [] suit = "Diamonds" -> 1
          [] suit = "Spades" -> 2 [] suit = "Clubs" -> 3
          [] OTHER -> SUIT_CLASSES - 1

ClaimedRanks ==
    <<"2", "3", "4", "5", "6", "7", "8", "9", "10", "Jack", "Queen", "King", "Ace">>

ClaimedRankIndex(card) ==
    LET value == Get(Get(card, "base", EmptyBase), "value", NoValue) IN
        IF \E r \in 1..Len(ClaimedRanks) : ClaimedRanks[r] = value
        THEN (CHOOSE r \in 1..Len(ClaimedRanks) : ClaimedRanks[r] = value) - 1
        ELSE VALUE_CLASSES - 1

\* the segment holds a single 1, at the 0-based index idx
OnlyOneAt(segment, idx) ==
    \A j \in 1..Len(segment) : segment[j] = IF j = idx + 1 THEN 1 ELSE 0

SuitSegment(slot) == SubSeq(slot, 2, SUIT_CLASSES + 1)

RankSegment(slot) == SubSeq(slot, SUIT_CLASSES + 2, SUIT_CLASSES + VALUE_CLASSES + 1)

AvailableActionsPart(value) == SubSeq(value, Len(value) - MAX_ACTIONS + 1, Len(value))

\* the native action ids of a list among those the game sends (1, 2, 3)
NativeIdsIn(available_actions) ==
    {available_actions[j] : j \in 1..Len(available_actions)} \cap (1..MAX_ACTIONS)

\* C27: the available-action segment of the observation has width 3 and
\* represents every available native action id among {1, 2, 3}: one position
\* is set per id, so the snapshots that differ from this one only in whether
\* one of these actions is available are encoded differently.
C27_EveryAvailableActionIsEncoded ==
    (MapperDone /\ PassesInboundContract(raw_state) /\ map_result.raised = "none")
        => LET part == AvailableActionsPart(map_result.value)
               ids == NativeIdsIn(raw_state.available_actions)
           IN  /\ Len(part) = MAX_ACTIONS
               /\ Cardinality({p \in 1..Len(part) : part[p] = 1}) = Cardinality(ids)
               /\ \A other \in AvailableActionLists :
                      NativeIdsIn(other) # ids
                          => AvailableActionsPart(
                                 process_game_state(
                                     [raw_state EXCEPT !.available_actions = other]).value)
                             # part


\* the hand-type one-hot, which comes before the available-action segment
HandTypePart(value) ==
    SubSeq(value, Len(value) - MAX_ACTIONS - Len(hand_types) + 1, Len(value) - MAX_ACTIONS)

\* the hand name the snapshot carries, NoValue when it carries none
HandNameOf(doc) ==
    Get(Get(Get(doc, "game_state", EmptyGameState), "current_hand", EmptyCurrentHand),
        "handname", NoValue)

\* C28: a hand name outside the hand-type list makes process_game_state raise
\* instead of returning an encoding; a missing or empty hand name is treated
\* as "None" and sets index 0 of the hand-type one-hot.
C28_UnknownHandNameRaises ==
    (MapperDone /\ PassesInboundContract(raw_state))
        => LET name == HandNameOf(raw_state) IN
               /\ (name \notin {NoValue, ""} /\ IndexOf(hand_types, name) < 0)
                      => map_result.raised # "none" /\ map_result.value = <<>>
               /\ name \in {NoValue, ""}
                      => /\ map_result.raised = "none"
                         /\ OnlyOneAt(HandTypePart(map_result.value), 0)
                         /\ IndexOf(hand_types, "None") = 0

\* the call raised ValueError on the hand name "Royal Flush"
C28_Witness ==
    /\ MapperDone
    /\ PassesInboundContract(raw_state)
    /\ HandNameOf(raw_state) = "Royal Flush"
    /\ map_result.raised = "ValueError"


(***************************************************************************)
(* Claims about the parameters of a command (checked under SpecAction).    *)
(***************************************************************************)
\* the card-indices entries of an action vector, the first being entry 1
CardEntries(action) == Tail(action)

\* C29: the params that process_action returns are exactly the 1-based
\* positions i (1..8) whose card-indices entry equals 1, each once and in
\* strictly ascending order; the entries equal to 0 contribute nothing, and
\* the action-selection entry has no effect on params.
C29_ParamsAreTheSelectedPositions ==
    apc = "done" =>
        LET params == act_result.value.params
            entries == CardEntries(rl_action)
        IN  /\ act_result.raised = "none"
            /\ {params[j] : j \in 1..Len(params)}
                   = {i \in 1..MAX_CARDS : entries[i] = 1}
            /\ \A j \in 1..Len(params), k \in 1..Len(params) :
                   j < k => params[j] < params[k]
            /\ \A sel \in (-1)..MaxActionIndex :
                   process_action(<<sel>> \o entries).value.params = params

\* a vector whose action-selection entry is 1 and whose first, third and last
\* card entries are 1 has given the params 1, 3, 8
C29_Witness ==
    /\ apc = "done"
    /\ rl_action = <<1, 1, 0, 1, 0, 0, 0, 0, 1>>
    /\ act_result.value.params = <<1, 3, 8>>


(***************************************************************************)
(* SpecMask: the environment builds the action mask of one request:        *)
(* reset, from "initial_request.get('available_actions', [])" to           *)
(* "self._action_masks = initial_action_mask", on requests whose           *)
(* available_actions lists hold up to MaxAvailable ids of 0..MaxNativeId,  *)
(* in any order and with repetitions, and on a request without the key.    *)
(***************************************************************************)
AvailableActionInputs ==
    UNION {[1..n -> 0..MaxNativeId] : n \in 0..MaxAvailable}

MaskRequests ==
    {EnvRequest(0, 0, 0)} \cup
    {[EnvRequest(0, 0, 0) EXCEPT !.available_actions = actions] :
        actions \in AvailableActionInputs} \cup
    {Without(EnvRequest(0, 0, 0), "available_actions")}

InitMask ==
    /\ epc = "masking"
    /\ current_state \in MaskRequests
    /\ prev_state = None
    /\ game_over = FALSE
    /\ restart_pending = FALSE
    /\ actions_taken = <<>>
    /\ action_masks = <<>>
    /\ reward_calculator = NewRewardCalculator
    /\ replay_file = NoReplayFile
    /\ env_ret = NoEnvRet
    /\ io_log = <<>>
    /\ calls = 0
    /\ MapperIdle
    /\ ActionIdle
    /\ PipeIdle
    /\ RewardIdle

CreateActionMask ==
    /\ epc = "masking"
    /\ action_masks' = create_action_mask(available_actions_of(current_state))
    /\ epc' = "ready"
    /\ UNCHANGED <<current_state, prev_state, game_over, restart_pending, actions_taken,
                   reward_calculator, replay_file, env_ret, io_log, calls,
                   mapVars, actVars, rewVars, pipeVars>>

NextMask == CreateActionMask

SpecMask == InitMask /\ [][NextMask]_vars

\* the mask has been built
MaskDone == epc = "ready"

\* the ids of the request's available_actions list
AvailableIn(doc) ==
    LET available_actions == Get(doc, "available_actions", <<>>) IN
        {available_actions[j] : j \in 1..Len(available_actions)}

\* the two entries of card slot c (1..8): "not selected", then "selected"
CardSlotMask(mask, c) == SubSeq(mask, MAX_ACTIONS + 2 * c - 1, MAX_ACTIONS + 2 * c)

\* C30: _create_action_mask returns a flat mask of length 19; action-selection
\* entry i is True exactly when native action i + 1 is available; each card
\* slot allows both values exactly when neither PLAY_HAND (2) nor
\* DISCARD_HAND (3) is available and otherwise only "not selected", which is
\* always allowed.
C30_MaskFollowsAvailableActions ==
    MaskDone =>
        LET ids == AvailableIn(current_state) IN
            /\ Len(action_masks) = 19
            /\ \A i \in 0..(MAX_ACTIONS - 1) : action_masks[i + 1] <=> (i + 1) \in ids
            /\ \A c \in 1..MAX_CARDS :
                   /\ CardSlotMask(action_masks, c)[1]
                   /\ CardSlotMask(action_masks, c)[2] <=> (2 \notin ids /\ 3 \notin ids)

\* DISCARD_HAND alone is available beside an id the game does not know: the
\* third action-selection entry is set and the card slots allow "not
\* selected" only
C30_Witness ==
    /\ MaskDone
    /\ current_state.available_actions = <<3, 4>>
    /\ action_masks[3]
    /\ ~action_masks[1]
    /\ CardSlotMask(action_masks, MAX_CARDS) = <<TRUE, FALSE>>


(***************************************************************************)
(* Claims about the inbound validator (checked under SpecMapper).          *)
(***************************************************************************)
\* the request has its three fields well typed, and its inner game state has
\* hand, round, game_over and state as the validator wants them
OtherRequiredFieldsPresent(doc) ==
    /\ Truthy(doc)
    /\ AssertFields(doc, {"game_state", "available_actions", "retry_count"}) = "none"
    /\ doc.mistyped = {}
    /\ LET game_state == doc.game_state IN
           /\ {"hand", "round", "game_over", "state"} \subseteq game_state.keys
           /\ validate_hand(game_state.hand) = "none"
           /\ validate_round(game_state.round) = "none"
           /\ game_state.game_over \in {0, 1}
           /\ "state" \notin game_state.mistyped

\* the inner game state carries a complete blind record, a complete ante
\* record, or both
HasAProgressRecord(game_state) ==
    \/ "blind" \in game_state.keys /\ validate_blind(game_state.blind) = "none"
    \/ "ante" \in game_state.keys /\ validate_ante(game_state.ante) = "none"

\* C31: the inbound validator accepts a request whose inner game state carries
\* all other required fields and only one of the blind and ante progress
\* records (either one suffices): process_game_state validates it without
\* raising and without logging a rejection.
C31_EitherProgressRecordSuffices ==
    (/\ MapperDone
     /\ OtherRequiredFieldsPresent(raw_state)
     /\ HasAProgressRecord(raw_state.game_state))
        => /\ validate_game_state(raw_state) = "none"
           /\ map_result.validated
           /\ ~map_result.logged
           /\ map_result.raised \in {"none", "ValueError"}


(***************************************************************************)
(* Claims about one call of step (checked under Spec).                     *)
(***************************************************************************)
\* a step of Spec in which step comes back from readline, and what it read
StepReceives == epc = "step_wait" /\ epc' # "step_wait"

ReceivedRequest == wait_for_request(request_handle, NextLine).doc

\* what one call of calculate_reward on the received request gives
RewardedOnce ==
    calculate_reward(reward_calculator, ReceivedRequest,
                     IF Truthy(prev_state) THEN prev_state ELSE EmptyDict)

\* in a step that receives no request the calculator is not called and the
\* reward is 0.0
NoRequestNoReward ==
    (StepReceives /\ ~Truthy(ReceivedRequest))
        => /\ reward_calculator' = reward_calculator
           /\ current_state' = current_state
           /\ env_ret'.returned => env_ret'.reward = 0

TerminalRequest(doc) ==
    LET game_state == Get(doc, "game_state", EmptyGameState) IN
        Get(game_state, "game_over", 0) = 1 \/ Get(game_state, "game_win", 0) = 1

\* what one call of try_save_replay at the end of this step leaves in the file
SavedOnce ==
    LET game_state == Get(ReceivedRequest, "game_state", EmptyGameState) IN
        try_save_replay(replay_file, Get(game_state, "seed", ""), actions_taken,
                        RewardedOnce.reward, Get(game_state, "chips", 0)).file

\* C33: the replay recorder is triggered at every episode boundary: each
\* step() that ends an episode on a received terminal state (game_over = 1 or
\* game_win = 1) calls try_save_replay exactly once, and no non-terminal step
\* calls it.
C33_ReplaySavedAtEveryEpisodeEnd ==
    [][StepReceives =>
          IF Truthy(ReceivedRequest) /\ TerminalRequest(ReceivedRequest) /\ env_ret'.returned
          THEN replay_file' = SavedOnce
          ELSE replay_file' = replay_file]_vars


\* C34: step() returns terminated = True exactly when no request was received
\* or the received request has game_over = 1 or game_win = 1, and terminated
\* = False otherwise; truncated is False in every case; when both game_over
\* and game_win are 1 the step is handled as a game over (no replay is saved).
C34_TerminatedExactlyOnEpisodeEnd ==
    [][(StepReceives /\ env_ret'.returned)
          => LET game_state == Get(ReceivedRequest, "game_state", EmptyGameState) IN
                 /\ env_ret'.terminated <=>
                        (~Truthy(ReceivedRequest) \/ TerminalRequest(ReceivedRequest))
                 /\ env_ret'.terminated <=> epc' = "terminated"
                 /\ ~env_ret'.truncated
                 /\ (/\ Truthy(ReceivedRequest)
                     /\ Get(game_state, "game_over", 0) = 1
                     /\ Get(game_state, "game_win", 0) = 1)
                        => replay_file' = replay_file]_vars

\* a step has received a request with game_over = 1 and game_win = 1 and
\* returned terminated, the replay file still missing
C34_Witness ==
    /\ epc = "terminated"
    /\ env_ret.call = "step"
    /\ env_ret.returned
    /\ env_ret.terminated
    /\ ~env_ret.timeout
    /\ current_state = EnvRequest(300, 1, 1)
    /\ replay_file = NoReplayFile


\* the restart command as the game knows it, and the number of times it
\* stands among the tokens written to the response handle (those the game has
\* not read yet)
AutomaticRestart == ResponseDoc(6, <<>>)

RestartsWritten(pipe, buffer) ==
    Cardinality({i \in 1..Len(pipe \o buffer) : (pipe \o buffer)[i] = DocToken(AutomaticRestart)})

\* this step writes the restart command once, after the reward of the step
\* has been computed
WritesRestartOnceAfterReward ==
    /\ RestartsWritten(response_pipe', response_buffer')
           = RestartsWritten(response_pipe, response_buffer) + 1
    /\ pipe_ret'.op = "send_response"
    /\ pipe_ret'.arg = AutomaticRestart
    /\ reward_calculator' = RewardedOnce.rc
    /\ env_ret'.reward = RewardedOnce.reward

\* no restart command is written in this step
WritesNoRestart ==
    RestartsWritten(response_pipe', response_buffer')
        <= RestartsWritten(response_pipe, response_buffer)

StepCall == epc = "ready" /\ calls' = calls + 1

\* the list without its i-th entry
WithoutEntry(list, i) == SubSeq(list, 1, i - 1) \o SubSeq(list, i + 1, Len(list))

\* this step saves a replay whose actions list is the list of the environment
SavesTheActionsTaken ==
    \E i \in 1..Len(replay_file'.replays) :
        /\ WithoutEntry(replay_file'.replays, i) = replay_file.replays
        /\ replay_file'.replays[i].actions = actions_taken
        /\ actions_taken' = actions_taken

\* this call of step hands the command cmd to the response handle behind
\* what was written before, and records it
SendsAndRecords(cmd) ==
    /\ actions_taken' = Append(actions_taken, cmd)
    /\ pipe_ret'.op = "send_response"
    /\ pipe_ret'.arg = cmd
    /\ cmd # AutomaticRestart
    /\ IF pipe_ret'.ok
       THEN /\ response_pipe' \o response_buffer'
                  = response_pipe \o response_buffer \o <<DocToken(cmd), NewlineToken>>
            /\ epc' = "step_wait"
       ELSE epc' = "raised"

EmptyLeaderboards == {NoReplayFile, [kind |-> "list", replays |-> <<>>]}

InitLeaderboard ==
    /\ MapperIdle /\ ActionIdle /\ PipeIdle
    /\ epc = "constructed"
    /\ current_state = None
    /\ prev_state = None
    /\ game_over = FALSE
    /\ restart_pending = FALSE
    /\ actions_taken = <<>>
    /\ action_masks = <<>>
    /\ reward_calculator = NewRewardCalculator
    /\ env_ret = NoEnvRet
    /\ io_log = <<>>
    /\ calls = 0
    /\ fresh_calculator = NewRewardCalculator
    /\ reward_ret = NoRewardRet
    /\ replay_file \in EmptyLeaderboards
    /\ \E max_replays \in 1..MaxCapacity :
           replay_ret = [NoReplayRet EXCEPT !.from_empty = TRUE, !.max_replays = max_replays]
    /\ instances = NoInstances
    /\ entry_point = NoEntryPoint

SubmitReplay(score) ==
    /\ replay_ret.saves < MaxSubmissions
    /\ LET saved == ReplaySystem_try_save_replay(replay_ret.max_replays, replay_file,
                                                 "SEED", <<>>, score, 300)
       IN  /\ replay_file' = saved.file
           /\ replay_ret' = [replay_ret EXCEPT
                               !.op = "try_save_replay", !.score = score,
                               !.count = saved.count, !.raised = saved.raised,
                               !.saves = @ + 1,
                               !.offered = @ \cup {score},
                               !.submitted = InsertScore(@, score)]
    /\ UNCHANGED <<epc, current_state, prev_state, game_over, restart_pending, actions_taken,
                   action_masks, reward_calculator, env_ret, io_log, calls,
                   fresh_calculator, reward_ret, instances, entry_point, mapVars, actVars,
                   pipeVars>>

NextLeaderboard == \E score \in 1..MaxTieScore : SubmitReplay(score)

SpecLeaderboard == InitLeaderboard /\ [][NextLeaderboard]_vars

\* the scores stored in the file, highest first
RECURSIVE ScoresHighestFirst(_)
ScoresHighestFirst(replays) ==
    IF replays = <<>> THEN <<>>
    ELSE InsertScore(ScoresHighestFirst(Tail(replays)), Head(replays).score)

\* the k largest of the scores (all of them when there are fewer)
Largest(scores, k) == SubSeq(scores, 1, IF k < Len(scores) THEN k ELSE Len(scores))

\* C37: starting from an empty leaderboard with capacity K >= 1, after any
\* sequence of try_save_replay calls the multiset of scores stored in the
\* file equals the min(K, n) largest scores among the n scores submitted so
\* far (ties counted with multiplicity).
C37_FileHoldsTheLargestScores ==
    /\ replay_ret.raised = "none"
    /\ ScoresHighestFirst(load_replays(replay_file))
           = Largest(replay_ret.submitted, replay_ret.max_replays)

\* a leaderboard of capacity 2 full of ties: 3, 3 and 2 twice were
\* submitted, the last call was refused, and the file holds 3, 3
C37_Witness ==
    /\ replay_ret.max_replays = 2
    /\ replay_ret.submitted = <<3, 3, 2, 2>>
    /\ replay_ret.score = 2
    /\ replay_ret.count = 2
    /\ ScoresHighestFirst(load_replays(replay_file)) = <<3, 3>>


\* C38: for every request whose available_actions list is non-empty, the
\* action-selection part of the mask built by _create_action_mask has at
\* least one True entry, so the policy always has a legal action to choose.
C38_SomeActionIsAlwaysLegal ==
    (MaskDone /\ Get(current_state, "available_actions", <<>>) # <<>>)
        => \E i \in 1..MAX_ACTIONS : action_masks[i]


\* C39: whenever step() can be called under the gym protocol (after reset(),
\* and after reset() again following a terminated step), the mask that
\* action_masks() returns is the one computed from the available_actions of
\* current_state, the request the step will answer; it is never a mask left
\* over from an earlier request.
C39_MaskIsOfTheCurrentRequest ==
    epc = "ready" =>
        /\ action_masks # <<>>
        /\ action_masks = create_action_mask(Get(current_state, "available_actions", <<>>))

\* the reset that follows a terminated step has received a request that
\* offers SELECT_HAND only: the mask allows that action alone and lets the
\* cards be selected, unlike the mask of the first episode
C39_Witness ==
    /\ epc = "ready"
    /\ env_ret.call = "reset"
    /\ reward_calculator.episode_count = 2
    /\ current_state.available_actions = <<1>>
    /\ action_masks[1]
    /\ ~action_masks[2]
    /\ CardSlotMask(action_masks, 1) = <<TRUE, TRUE>>

===========================================================================
